---- MODULE Spec2Model ----
(***************************************************************************)
(* A model of PyFstat's grid-based searches (pyfstat/grid_based_searches.py)*)
(* : axis expansion, the input table, the validation of an old output file,*)
(* the evaluation loop of run() and the saving of the result table.        *)
(*                                                                         *)
(* Numbers.  A float of the program is modelled as an integer count of     *)
(* hundredths (Scale units per 1.0).  Where the program's result depends   *)
(* on binary floating-point rounding (the point count of an axis, line     *)
(* 185), the model computes in binary floating point with a MantBits-bit   *)
(* significand, round-to-nearest-even.  The binary expansion of 1/100 has  *)
(* period 20, and MantBits is congruent to 53 modulo 20: on decimal inputs *)
(* with two decimals the truncated quotient of the model equals the one    *)
(* float64 gives.                                                          *)
(***************************************************************************)
EXTENDS Integers, Sequences, FiniteSets, TLC

VARIABLES
  axis,    \* the axis given to _get_array_from_tuple and what it returned
  cfg,     \* the constructor arguments of the search object
  obj,     \* the attributes run() sets on the search object
  run,     \* the position and the locals of the current run() call
  disk,    \* the output file, and the modification time of the SFT files
  calls,   \* the points the evaluator was called with, over all runs
  env,     \* counters of the environment: clock, runs started, edits made
  call     \* a method called on its own: its arguments and what it gave

vars == <<axis, cfg, obj, run, disk, calls, env, call>>

----------------------------------------------------------------------------
(* Bounds of the model. *)

\* the longest axis tuple given to _get_array_from_tuple
MaxAxisLen == 4
\* the number of run() calls on one search object
MaxRuns == 2
\* the number of changes made to the files between two runs
MaxEdits == 1

----------------------------------------------------------------------------
(* Arithmetic. *)

\* units per 1.0: a float is modelled with two decimals
Scale == 100

\* bits of the significand of the binary floating-point model
MantBits == 13

Abs(a) == IF a < 0 THEN -a ELSE a

Sign(a) == IF a < 0 THEN -1 ELSE 1

Min2(a, b) == IF a < b THEN a ELSE b

RECURSIVE Pow(_, _)
Pow(b, k) == IF k <= 0 THEN 1 ELSE b * Pow(b, k - 1)

\* n / d rounded to the nearest integer, ties to even (n >= 0, d > 0)
RoundHalfEven(n, d) ==
  LET f == n \div d
      r == n % d
  IN  IF 2 * r > d \/ (2 * r = d /\ f % 2 = 1) THEN f + 1 ELSE f

\* a / d rounded to the nearest integer, ties to even (any sign of a, d > 0)
RoundDiv(a, d) == Sign(a) * RoundHalfEven(Abs(a), d)

\* a / d truncated toward zero, as int() and "%d" do (d > 0)
TruncDiv(a, d) == Sign(a) * (Abs(a) \div d)

\* the number of decimal digits of n >= 0 (0 has none)
RECURSIVE NumDigits(_)
NumDigits(n) == IF n = 0 THEN 0 ELSE 1 + NumDigits(n \div 10)

----------------------------------------------------------------------------
(* Binary floating point: s * m * 2^e with m = 0 or                        *)
(* 2^(MantBits-1) <= m < 2^MantBits.                                       *)

FZero == [s |-> 1, m |-> 0, e |-> 0]

\* the exponent e with 2^(MantBits-1) <= n / (d * 2^e) < 2^MantBits
RECURSIVE FNorm(_, _, _)
FNorm(n, d, e) ==
  IF n >= d * Pow(2, MantBits) THEN FNorm(n, 2 * d, e + 1)
  ELSE IF n < d * Pow(2, MantBits - 1) THEN FNorm(2 * n, d, e - 1)
  ELSE [n |-> n, d |-> d, e |-> e]

\* the float s * m * 2^e, m carried into the next binade when it rounded up to it
FPack(sgn, m, e) ==
  IF m = Pow(2, MantBits)
  THEN [s |-> sgn, m |-> Pow(2, MantBits - 1), e |-> e + 1]
  ELSE [s |-> sgn, m |-> m, e |-> e]

FRoundNorm(sgn, z, e0) == FPack(sgn, RoundHalfEven(z.n, z.d), z.e + e0)

\* the float nearest to sgn * (n / d) * 2^e0  (n >= 0, d > 0)
FRound(sgn, n, d, e0) ==
  IF n = 0 THEN FZero ELSE FRoundNorm(sgn, FNorm(n, d, 0), e0)

\* the float of the decimal literal v / Scale
FFromDec(v) == FRound(Sign(v), Abs(v), Scale, 0)

\* the float nearest to d * 2^lo
FSubAligned(d, lo) == FRound(Sign(d), Abs(d), 1, lo)

\* a - b, rounded
FSub(a, b) ==
  IF b.m = 0 THEN a
  ELSE IF a.m = 0 THEN [b EXCEPT !.s = -b.s]
  ELSE FSubAligned(a.s * a.m * Pow(2, a.e - Min2(a.e, b.e))
                     - b.s * b.m * Pow(2, b.e - Min2(a.e, b.e)),
                   Min2(a.e, b.e))

\* a / b, rounded (b is not zero)
FDiv(a, b) == FRound(a.s * b.s, a.m, b.m, a.e - b.e)

\* int(a): the integer part, toward zero
FTrunc(a) ==
  IF a.e >= 0 THEN a.s * a.m * Pow(2, a.e)
  ELSE a.s * (a.m \div Pow(2, -a.e))

----------------------------------------------------------------------------
(* GridSearch._get_array_from_tuple                                        *)

\* int((x[1] - x[0]) / x[2]) + 1, in float arithmetic (x[2] is not zero)
NumPoints(x) ==
  FTrunc(FDiv(FSub(FFromDec(x[2]), FFromDec(x[1])), FFromDec(x[3]))) + 1

\* np.linspace(start, stop, num, endpoint=True) for num >= 0: num points,
\* point i at start + i * (stop - start) / (num - 1), the last one set to stop
linspace(start, stop, num) ==
  [i \in 1..num |->
     IF i = 1 THEN start
     ELSE IF i = num THEN stop
     ELSE start + RoundDiv((i - 1) * (stop - start), num - 1)]

Ok(arr) == [err |-> "none", arr |-> arr]

Raised(e) == [err |-> e, arr |-> <<>>]

\* the range branch: a zero step gives inf or nan, whose int() raises;
\* a negative number of samples makes np.linspace raise
linspace_or_raise(start, stop, num) ==
  IF num < 0 THEN Raised("ValueError") ELSE Ok(linspace(start, stop, num))

expand_range(x) ==
  IF x[3] = 0
  THEN Raised(IF x[2] = x[1] THEN "ValueError" ELSE "OverflowError")
  ELSE linspace_or_raise(x[1], x[2], NumPoints(x))

\* a faulty variant: a tuple of length 3 is expanded whatever input_arrays says
get_array_from_tuple_noflag(x, input_arrays) ==
  IF Len(x) = 1 THEN Ok(x)
  ELSE IF Len(x) = 3 THEN expand_range(x)
  ELSE Ok(x)

get_array_from_tuple(x, input_arrays) ==
  IF Len(x) = 1 THEN Ok(x)
  ELSE IF Len(x) = 3 /\ input_arrays = FALSE THEN expand_range(x)
  ELSE Ok(x)

----------------------------------------------------------------------------
(* Sequences and tables.  A table is [names, rows]: the column names in    *)
(* order (the dtype of a structured array) and one function from column    *)
(* name to value per row.                                                  *)

Range(s) == {s[i] : i \in 1..Len(s)}

\* s.index(k): the first position of k in s, 0 when k is not in s
IndexOf(s, k) ==
  IF k \in Range(s) THEN CHOOSE i \in 1..Len(s) : s[i] = k /\ \A j \in 1..(i - 1) : s[j] # k
  ELSE 0

RECURSIVE ProdLen(_)
ProdLen(arrs) == IF arrs = <<>> THEN 1 ELSE Len(Head(arrs)) * ProdLen(Tail(arrs))

\* a faulty variant: every tuple of rest after every element of h, the
\* element of h varying fastest
cross_first_fastest(h, rest) ==
  [i \in 1..(Len(h) * Len(rest)) |->
     <<h[((i - 1) % Len(h)) + 1]>> \o rest[((i - 1) \div Len(h)) + 1]]

\* every tuple of rest after every element of h: for each element of h in
\* turn, all of rest in order
cross(h, rest) ==
  [i \in 1..(Len(h) * Len(rest)) |->
     <<h[((i - 1) \div Len(rest)) + 1]>> \o rest[((i - 1) % Len(rest)) + 1]]

\* itertools.product(*arrs): the tuples in order, the last array varying fastest
RECURSIVE product(_)
product(arrs) ==
  IF arrs = <<>> THEN << <<>> >> ELSE cross(Head(arrs), product(Tail(arrs)))

\* the row with value vals[k] in column names[k]
RowOf(names, vals) == [c \in Range(names) |-> vals[IndexOf(names, c)]]

\* the values of a row in the order of names
ValsOf(names, row) == [k \in 1..Len(names) |-> row[names[k]]]

NoTable == [names |-> <<>>, rows |-> <<>>]

----------------------------------------------------------------------------
(* The search classes and their keys.                                      *)

Variants ==
  {"GridSearch", "TransientGridSearch", "SearchOverGridFile", "GridGlitchSearch"}

\* BaseSearchClass.default_search_keys, one key per axis argument of __init__
default_search_keys == <<"F0", "F1", "F2", "Alpha", "Delta">>

\* self.search_keys as __init__ sets it
search_keys(c) ==
  IF c.variant = "GridGlitchSearch"
  THEN default_search_keys \o <<"delta_F0", "delta_F1", "tglitch">>
  ELSE IF c.variant = "SearchOverGridFile" THEN c.grid.names
  ELSE default_search_keys

\* the detector names of the evaluator (self.search.detector_names)
detector_names == <<"H1", "L1">>

twoFX_keys == <<"twoFH1", "twoFL1">>

\* self.detstat as __init__ sets it (both BSGL and BtSG: __init__ raises)
detstat(c) ==
  IF c.variant \in {"GridSearch", "GridGlitchSearch"}
  THEN IF c.BSGL THEN "log10BSGL" ELSE "twoF"
  ELSE IF c.BSGL THEN "log10BSGL"
  ELSE IF c.BtSG THEN "lnBtSG"
  ELSE IF c.variant = "TransientGridSearch" THEN "maxTwoF"
  ELSE IF c.transientWindowType # "None" THEN "maxTwoF"
  ELSE "twoF"

\* a faulty variant: the estimates of a transient search are put before the
\* column of the detection statistic
output_keys_estimates_first(c) ==
  IF c.variant \in {"GridSearch", "GridGlitchSearch"}
  THEN search_keys(c) \o <<"twoF">>
         \o (IF c.singleFstats THEN twoFX_keys ELSE <<>>)
         \o (IF c.BSGL THEN <<detstat(c)>> ELSE <<>>)
  ELSE search_keys(c) \o <<"twoF">>
         \o (IF c.singleFstats THEN twoFX_keys ELSE <<>>)
         \o (IF c.transientWindowType # "None" THEN <<"t0_ML", "tau_ML">> ELSE <<>>)
         \o (IF c.transientWindowType # "None" /\ c.BtSG
             THEN <<"t0_MP", "tau_MP">> ELSE <<>>)
         \o (IF c.transientWindowType # "None" THEN <<"maxTwoF">> ELSE <<>>)
         \o (IF detstat(c) \notin {"twoF", "maxTwoF"} THEN <<detstat(c)>> ELSE <<>>)

\* GridSearch._set_output_keys and TransientGridSearch._set_output_keys
output_keys(c) ==
  IF c.variant \in {"GridSearch", "GridGlitchSearch"}
  THEN search_keys(c) \o <<"twoF">>
         \o (IF c.singleFstats THEN twoFX_keys ELSE <<>>)
         \o (IF c.BSGL THEN <<detstat(c)>> ELSE <<>>)
  ELSE search_keys(c) \o <<"twoF">>
         \o (IF c.singleFstats THEN twoFX_keys ELSE <<>>)
         \o (IF c.transientWindowType # "None" THEN <<"maxTwoF">> ELSE <<>>)
         \o (IF detstat(c) \notin {"twoF", "maxTwoF"} THEN <<detstat(c)>> ELSE <<>>)
         \o (IF c.transientWindowType # "None" THEN <<"t0_ML", "tau_ML">> ELSE <<>>)
         \o (IF c.transientWindowType # "None" /\ c.BtSG
             THEN <<"t0_MP", "tau_MP">> ELSE <<>>)

----------------------------------------------------------------------------
(* Values that are not finite.  sys.float_info.max is FloatMax, in the     *)
(* units of Scale as every other value.                                    *)

FloatMax == 1797693134

PosInf == 2000000000

NegInf == -2000000000

NaN == -2000000001

isfinite(v) == v \notin {NaN, PosInf, NegInf}

----------------------------------------------------------------------------
(* Output formats.  A printf format is [conv, prec]: its conversion letter *)
(* and its digit count.  FormatValue is what reading back the printed      *)
(* value gives.                                                            *)

Fmt(conv, prec) == [conv |-> conv, prec |-> prec, width |-> -1]

\* the precision printf uses: 6 when the format has none, and "%.0g" is "%.1g"
printf_precision(f) ==
  IF f.prec < 0 THEN 6
  ELSE IF f.conv = "g" /\ f.prec = 0 THEN 1
  ELSE f.prec

\* "%.<P>g": P significant digits
FormatG(P, v) ==
  LET n == NumDigits(Abs(v))
  IN  IF n <= P THEN v
      ELSE Sign(v) * RoundHalfEven(Abs(v), Pow(10, n - P)) * Pow(10, n - P)

\* "%.<D>f": D decimals
FormatF(D, v) ==
  IF D >= NumDigits(Scale) - 1 THEN v
  ELSE RoundDiv(v, Scale \div Pow(10, D)) * (Scale \div Pow(10, D))

\* "%d" of a float: its integer part
FormatD(v) == TruncDiv(v, Scale) * Scale

\* a value that is not finite is written nan, inf or -inf by "%g" and "%f",
\* and read back as it was
FormatValue(f, v) ==
  IF ~isfinite(v) THEN v
  ELSE IF f.conv = "d" THEN FormatD(v)
  ELSE IF f.conv = "g" THEN FormatG(printf_precision(f), v)
  ELSE FormatF(printf_precision(f), v)

\* BaseSearchClass.fmt_detstat
fmt_detstat == Fmt("g", 9)

\* the keys utils.get_doppler_params_output_format gives a format to
doppler_keys == {"F0", "F1", "F2", "F3", "Alpha", "Delta"}

\* the three _get_savetxt_fmt_dict methods: key -> format
get_savetxt_fmt_dict(c) ==
  LET dop == [k \in Range(output_keys(c)) \cap doppler_keys |-> c.fmt_doppler]
      one(k, f) == [x \in {k} |-> f]
      X == IF c.singleFstats THEN [k \in Range(twoFX_keys) |-> fmt_detstat] ELSE <<>>
  IN  IF c.variant = "GridGlitchSearch"
      THEN one(detstat(c), fmt_detstat) @@ one("tglitch", Fmt("d", 0))
             @@ one("delta_F1", c.fmt_doppler) @@ one("delta_F0", c.fmt_doppler) @@ dop
      ELSE IF c.variant = "GridSearch"
      THEN (IF c.BSGL THEN one("log10BSGL", fmt_detstat) ELSE <<>>)
             @@ X @@ one("twoF", fmt_detstat) @@ dop
      ELSE (IF c.BtSG THEN one("tau_MP", Fmt("d", 0)) @@ one("t0_MP", Fmt("d", 0))
            ELSE <<>>)
             @@ one("tau_ML", Fmt("d", 0)) @@ one("t0_ML", Fmt("d", 0))
             @@ (IF detstat(c) # "maxTwoF" THEN one(detstat(c), fmt_detstat) ELSE <<>>)
             @@ one("maxTwoF", fmt_detstat) @@ X @@ one("twoF", fmt_detstat) @@ dop

\* [fmt_dict[key] for key in self.output_keys]
fmt_list_of(keys, d) ==
  IF Range(keys) \subseteq DOMAIN d
  THEN [err |-> "none", fmts |-> [k \in 1..Len(keys) |-> d[keys[k]]]]
  ELSE [err |-> "KeyError", fmts |-> <<>>]

\* _get_savetxt_fmt_list: a KeyError when an output key has no format
get_savetxt_fmt_list(c) == fmt_list_of(output_keys(c), get_savetxt_fmt_dict(c))

\* re.findall(r"\d+", f): the numbers written in the format, in order
findall_digits(f) ==
  (IF f.width >= 0 THEN <<f.width>> ELSE <<>>) \o (IF f.prec >= 0 THEN <<f.prec>> ELSE <<>>)

\* rtol and atol are zero or a power of ten
Zero == [zero |-> TRUE, exp |-> 0]

TenTo(e) == [zero |-> FALSE, exp |-> e]

Tol(rtol, atol) == [rtol |-> rtol, atol |-> atol]

Tolerance(t) == [err |-> "none", tol |-> t]

NoTolerance(e) == [err |-> e, tol |-> Tol(Zero, Zero)]

\* lines 451-468, one pass of the loop: int(...[-1]) of an empty list is an
\* IndexError
tolerance_of(f) ==
  IF f.conv = "d" THEN Tolerance(Tol(Zero, Zero))
  ELSE IF f.conv \in {"g", "f"}
  THEN IF findall_digits(f) = <<>> THEN NoTolerance("IndexError")
       ELSE IF f.conv = "g"
       THEN Tolerance(Tol(TenTo(1 - findall_digits(f)[Len(findall_digits(f))]), Zero))
       ELSE Tolerance(Tol(Zero, TenTo(-findall_digits(f)[Len(findall_digits(f))])))
  ELSE NoTolerance("ValueError")

\* _get_tolerance_from_savetxt_fmt: (rtol, atol) per key of the format
\* dictionary; the first format of the dictionary that raises ends the call
tolerances_of(d) ==
  IF \A k \in DOMAIN d : tolerance_of(d[k]).err = "none"
  THEN [err |-> "none", tol |-> [k \in DOMAIN d |-> tolerance_of(d[k]).tol]]
  ELSE [err |-> tolerance_of(d[CHOOSE k \in DOMAIN d : tolerance_of(d[k]).err # "none"]).err,
        tol |-> <<>>]

get_tolerance_from_savetxt_fmt(c) == tolerances_of(get_savetxt_fmt_dict(c))

\* d <= b * 10^e, for integers d >= 0, b >= 0
RECURSIVE LeScaled(_, _, _)
LeScaled(d, b, e) ==
  IF e = 0 THEN d <= b
  ELSE IF e < 0 THEN LeScaled(d, b \div 10, e + 1)
  ELSE LeScaled((d + 9) \div 10, b, e - 1)

\* one element of np.allclose(a, b, rtol, atol): |a - b| <= atol + rtol * |b|,
\* for a tolerance of lines 457-465, where rtol or atol is zero
isclose(a, b, t) ==
  IF t.rtol.zero /\ t.atol.zero THEN a = b
  ELSE IF t.rtol.zero THEN LeScaled(Abs(a - b), Scale, t.atol.exp)
  ELSE LeScaled(Abs(a - b), Abs(b), t.rtol.exp)

----------------------------------------------------------------------------
(* The input table.                                                        *)

\* the expansion of every axis, in search_keys order
expanded_axes(c) ==
  [k \in 1..Len(search_keys(c)) |->
     get_array_from_tuple(c.axes[search_keys(c)[k]], c.input_arrays)]

\* the loop over itertools.product(*coord_arrays) and np.array(input_data, dtype)
rows_of(keys, tuples) == [i \in 1..Len(tuples) |-> RowOf(keys, tuples[i])]

product_rows(keys, coord_arrays) == rows_of(keys, product(coord_arrays))

\* np.prod([len(ca) for ca in coord_arrays])
total_iterations_of(coord_arrays) == ProdLen(coord_arrays)

\* the first axis whose expansion raised, 0 when none did
FirstRaised(ex) ==
  IF \A k \in 1..Len(ex) : ex[k].err = "none" THEN 0
  ELSE CHOOSE k \in 1..Len(ex) : ex[k].err # "none" /\ \A j \in 1..(k - 1) : ex[j].err = "none"

\* lines 204-217, from the coordinate arrays
input_data_of(c, o, arrs) ==
  [err |-> "none",
   obj |-> [o EXCEPT
     !.coord_arrays = arrs,
     !.total_iterations = total_iterations_of(arrs),
     !.has_input_data = IF c.clean THEN @ ELSE TRUE,
     !.input_data =
       IF c.clean THEN @
       ELSE [names |-> search_keys(c), rows |-> product_rows(search_keys(c), arrs)]]]

\* lines 199-217, from the expansions of the axes
input_data_from(c, o, ex) ==
  IF FirstRaised(ex) # 0 THEN [err |-> ex[FirstRaised(ex)].err, obj |-> o]
  ELSE input_data_of(c, o, [k \in 1..Len(ex) |-> ex[k].arr])

\* GridSearch._get_input_data_array and SearchOverGridFile._get_input_data_array:
\* the attributes it sets; input_data only when clean is false.  An axis whose
\* expansion raises ends the call.
get_input_data_array(c, o) ==
  IF c.variant = "SearchOverGridFile"
  THEN [err |-> "none",
        obj |-> [o EXCEPT !.coord_arrays = c.grid.rows,
                          !.total_iterations = Len(c.grid.rows),
                          !.has_input_data = IF c.clean THEN @ ELSE TRUE,
                          !.input_data = IF c.clean THEN @ ELSE c.grid]]
  ELSE input_data_from(c, o, expanded_axes(c))

----------------------------------------------------------------------------
(* The header of the output file.  A parameter line "key = value" is the   *)
(* pair <<key, value>>.                                                    *)

BoolStr(b) == IF b THEN "True" ELSE "False"

\* pprint_init_params_dict()[1:-1]: one line per constructor argument
param_lines(c) ==
  << <<"label", c.label>>,
     <<"sftfilepattern", IF c.sftfilepattern THEN "*.sft" ELSE "None">>,
     <<"grid", c.gridname>>,
     <<"input_arrays", BoolStr(c.input_arrays)>>,
     <<"clean", BoolStr(c.clean)>> >>

\* np.setxor1d(a, b): the values in exactly one of the two lists
setxor1d(a, b) == (Range(a) \ Range(b)) \cup (Range(b) \ Range(a))

\* a faulty variant: the two lists compared line by line, in order
header_matches_in_order(old_lines, new_lines) == old_lines = new_lines

\* lines 266-267: no unmatched line
header_matches(old_lines, new_lines) == Cardinality(setxor1d(old_lines, new_lines)) = 0

----------------------------------------------------------------------------
(* GridSearch.check_old_data_is_okay_to_use                                *)

\* min([os.path.getmtime(f) for f in self._get_list_of_matching_sfts()])
oldest_sft(d) == CHOOSE t \in Range(d.sfts) : \A u \in Range(d.sfts) : t <= u

\* a faulty variant: an output file as old as the oldest SFT file is outdated too
is_outdated_or_same(mtime, oldest) == mtime <= oldest

\* line 252: os.path.getmtime(self.out_file) < oldest_sft
is_outdated(mtime, oldest) == mtime < oldest

Miss(reason) == [ret |-> "False", reason |-> reason, err |-> "none"]

CheckRaised(reason, e) == [ret |-> "raised", reason |-> reason, err |-> e]

Hit == [ret |-> "old_data", reason |-> "ok", err |-> "none"]

\* np.allclose(old_data[key], self.input_data[key], rtol[key], atol[key])
column_matches(old, new, key, t) ==
  \A r \in 1..Len(new.rows) : isclose(old.rows[r][key], new.rows[r][key], t)

\* a faulty variant: the values of the input columns are not compared
compare_columns_skip(c, old, new) == Hit

\* lines 304-327: the tolerances, then every search key's column compared
compare_columns_with(keys, old, new, t) ==
  IF t.err # "none" THEN CheckRaised("values", t.err)
  ELSE IF \E k \in 1..Len(keys) :
            /\ keys[k] \notin Range(old.names)
            /\ \A j \in 1..(k - 1) : keys[j] \in Range(old.names) \cap DOMAIN t.tol
  THEN CheckRaised("values", "ValueError")
  ELSE IF \E k \in 1..Len(keys) : keys[k] \notin DOMAIN t.tol
  THEN CheckRaised("values", "KeyError")
  ELSE IF \A k \in 1..Len(keys) : column_matches(old, new, keys[k], t.tol[keys[k]])
  THEN Hit
  ELSE Miss("values")

compare_columns(c, old, new) ==
  compare_columns_with(search_keys(c), old, new, get_tolerance_from_savetxt_fmt(c))

\* the checks in the order of the code; the message of the column-count
\* branch indexes np.shape(old_data)[1] of a one-dimensional array
check_old_data_is_okay_to_use(c, o, d) ==
  IF c.clean THEN Miss("clean")
  ELSE IF ~d.exists THEN Miss("nofile")
  ELSE IF c.sftfilepattern /\ is_outdated(d.mtime, oldest_sft(d)) THEN Miss("stale")
  ELSE IF ~header_matches(d.header, param_lines(c)) THEN Miss("header")
  ELSE IF Len(d.table.rows) # Len(o.input_data.rows) THEN Miss("length")
  ELSE IF Len(d.table.names) < Len(o.input_data.names)
  THEN CheckRaised("columns", "IndexError")
  ELSE compare_columns(c, d.table, o.input_data)

----------------------------------------------------------------------------
(* One grid point: _get_single_cand_results.  ev is what the evaluator     *)
(* left after get_det_stat: the value it returned (detstat) and its        *)
(* attributes twoF, twoFX, maxTwoF, windowRange and FstatMap.              *)

NoWindowRange == [none |-> TRUE, t0 |-> 0, dt0 |-> 0, tau |-> 0, dtau |-> 0]

NoFstatMap == [has |-> FALSE, maxidx |-> <<0, 0>>, t0_MP |-> 0, tau_MP |-> 0]

\* the evaluator of a search without transient window, twoF being t: the
\* statistics it leaves differ from each other
evaluated(t) ==
  [twoF |-> t, detstat |-> t + 3, twoFX |-> <<t + 1, t + 2>>, maxTwoF |-> t + 4,
   windowRange |-> NoWindowRange, FstatMap |-> NoFstatMap]

CandRaised(e) == [err |-> e, row |-> <<>>]

\* the loop over output_keys with thisCand a dict: a key it lacks is a RuntimeError
row_from_dict(keys, cand) ==
  IF Range(keys) \subseteq DOMAIN cand
  THEN [err |-> "none", row |-> [k \in Range(keys) |-> cand[k]]]
  ELSE CandRaised("RuntimeError")

\* a faulty variant: a key without element keeps the zero of np.zeros
row_from_list_or_zero(keys, cand) ==
  [err |-> "none",
   row |-> [k \in Range(keys) |->
              IF IndexOf(keys, k) <= Len(cand) THEN cand[IndexOf(keys, k)] ELSE 0]]

\* the loop over output_keys with thisCand a list, taken by position
row_from_list(keys, cand) ==
  IF Len(keys) <= Len(cand)
  THEN [err |-> "none", row |-> [k \in Range(keys) |-> cand[IndexOf(keys, k)]]]
  ELSE CandRaised("IndexError")

\* thisCand[f"twoF{IFO}"] = self.search.twoFX[X] for every detector
twoFX_of(ev) == [k \in Range(twoFX_keys) |-> ev.twoFX[IndexOf(twoFX_keys, k)]]

\* GridSearch._get_single_cand_results: thisCand, then one value per output
\* key; twoFX[X] beyond the end of twoFX is an IndexError
single_cand_GridSearch(c, vals, ev) ==
  IF c.singleFstats /\ Len(ev.twoFX) < Len(detector_names) THEN CandRaised("IndexError")
  ELSE row_from_dict(output_keys(c),
         (IF detstat(c) # "twoF" THEN [k \in {detstat(c)} |-> ev.detstat] ELSE <<>>)
           @@ (IF c.singleFstats THEN twoFX_of(ev) ELSE <<>>)
           @@ [k \in {"twoF"} |-> ev.twoF]
           @@ RowOf(search_keys(c), vals))

\* lines 1103-1117: thisCand before the transient estimates
transient_cand(c, vals, ev) ==
  (IF detstat(c) \notin {"twoF", "maxTwoF"}
   THEN [k \in {detstat(c)} |-> ev.detstat] ELSE <<>>)
    @@ (IF ~ev.windowRange.none THEN [k \in {"maxTwoF"} |-> ev.maxTwoF] ELSE <<>>)
    @@ (IF c.singleFstats THEN twoFX_of(ev) ELSE <<>>)
    @@ [k \in {"twoF"} |-> ev.twoF]
    @@ RowOf(search_keys(c), vals)

\* a faulty variant: the two indices of the maximum taken for each other
transient_estimates_swapped(c, ev) ==
  (IF c.BtSG
   THEN [k \in {"t0_MP"} |-> ev.FstatMap.t0_MP] @@ [k \in {"tau_MP"} |-> ev.FstatMap.tau_MP]
   ELSE <<>>)
    @@ [k \in {"t0_ML"} |-> ev.windowRange.t0 + ev.FstatMap.maxidx[2] * ev.windowRange.dt0]
    @@ [k \in {"tau_ML"} |-> ev.windowRange.tau + ev.FstatMap.maxidx[1] * ev.windowRange.dtau]

\* lines 1128-1133: the estimates of the start time and the duration
transient_estimates(c, ev) ==
  (IF c.BtSG
   THEN [k \in {"t0_MP"} |-> ev.FstatMap.t0_MP] @@ [k \in {"tau_MP"} |-> ev.FstatMap.tau_MP]
   ELSE <<>>)
    @@ [k \in {"t0_ML"} |-> ev.windowRange.t0 + ev.FstatMap.maxidx[1] * ev.windowRange.dt0]
    @@ [k \in {"tau_ML"} |-> ev.windowRange.tau + ev.FstatMap.maxidx[2] * ev.windowRange.dtau]

\* TransientGridSearch._get_single_cand_results: without FstatMap a
\* RuntimeError, and windowRange.t0 of a windowRange that is None an
\* AttributeError
single_cand_Transient(c, vals, ev) ==
  IF c.singleFstats /\ Len(ev.twoFX) < Len(detector_names) THEN CandRaised("IndexError")
  ELSE IF c.transientWindowType = "None"
  THEN row_from_dict(output_keys(c), transient_cand(c, vals, ev))
  ELSE IF ~ev.FstatMap.has THEN CandRaised("RuntimeError")
  ELSE IF ev.windowRange.none THEN CandRaised("AttributeError")
  ELSE row_from_dict(output_keys(c),
                     transient_estimates(c, ev) @@ transient_cand(c, vals, ev))

\* GridGlitchSearch._get_single_cand_results: thisCand is a list, and the
\* k-th output key takes its k-th element
single_cand_Glitch(c, vals, ev) ==
  row_from_list(output_keys(c),
    vals \o <<ev.twoF>>
      \o (IF c.singleFstats THEN SubSeq(ev.twoFX, 1, Min2(Len(ev.twoFX), Len(detector_names)))
          ELSE <<>>)
      \o (IF detstat(c) # "twoF" THEN <<ev.detstat>> ELSE <<>>))

\* a faulty variant: the candidate's values are taken from the first row
single_cand_results_first_row(c, o, n, ev) ==
  single_cand_GridSearch(c, ValsOf(o.input_data.names, o.input_data.rows[1]), ev)

\* the row for the n-th element of the iterable (n counts from 0)
single_cand_results(c, o, n, ev) ==
  LET vals == ValsOf(o.input_data.names, o.input_data.rows[n + 1])
  IN  IF c.variant = "GridGlitchSearch" THEN single_cand_Glitch(c, vals, ev)
      ELSE IF c.variant = "GridSearch" THEN single_cand_GridSearch(c, vals, ev)
      ELSE single_cand_Transient(c, vals, ev)

----------------------------------------------------------------------------
(* run(): up to the loop.                                                  *)

\* np.zeros(len(self.input_data), dtype=output_dtype)
zeros(c, o) ==
  [names |-> output_keys(c),
   rows  |-> [i \in 1..Len(o.input_data.rows) |-> [k \in Range(output_keys(c)) |-> 0]]]

Prologue(pc, v, last, exc, where, o, data) ==
  [pc |-> pc, check |-> v.ret, reason |-> v.reason, last |-> last, exc |-> exc,
   where |-> where, obj |-> o, data |-> data]

NoCheck == [ret |-> "none", reason |-> "none", err |-> "none"]

AfterCheck(c, o, d, v) ==
  IF v.ret = "raised"
  THEN Prologue("idle", v, "raised", v.err, "check_old_data_is_okay_to_use", o, NoTable)
  ELSE IF v.ret = "old_data"
  THEN Prologue("idle", v, "hit", "none", "none",
                [o EXCEPT !.has_data = TRUE, !.data = d.table], NoTable)
  ELSE IF ~o.has_input_data
  THEN Prologue("idle", v, "raised", "AttributeError", "run", o, NoTable)
  ELSE Prologue("loop", v, "none", "none", "none", o, zeros(c, o))

\* GridSearch.run, lines 389-410: with clean the iterable is a generator, and
\* np.shape(iterable)[0] in the log message indexes an empty shape
run_GridSearch(c, o, d) ==
  IF c.clean
  THEN Prologue("idle", NoCheck, "raised", "IndexError", "run", o, NoTable)
  ELSE AfterCheck(c, o, d, check_old_data_is_okay_to_use(c, o, d))

\* TransientGridSearch.run, lines 1168-1185: the check is always consulted,
\* and len(self.input_data) needs the attribute clean leaves unset
run_Transient(c, o, d) == AfterCheck(c, o, d, check_old_data_is_okay_to_use(c, o, d))

run_prologue(c, o, d) ==
  IF c.variant \in {"GridSearch", "GridGlitchSearch"} THEN run_GridSearch(c, o, d)
  ELSE run_Transient(c, o, d)

----------------------------------------------------------------------------
(* save_array_to_disk                                                      *)

\* np.nan_to_num(x) of an array of floats: NaN becomes 0, and an infinity the
\* largest finite float of its sign
nan_to_num_float(v) ==
  IF v = NaN THEN 0
  ELSE IF v = PosInf THEN FloatMax
  ELSE IF v = NegInf THEN -FloatMax
  ELSE v

\* np.nan_to_num(x): an array whose dtype is not a float or complex type is
\* returned as it is.  self.data is a structured array (lines 406-412,
\* np.zeros(..., dtype=output_dtype) with named fields), whose dtype.type is
\* np.void.
nan_to_num(x, structured) ==
  IF structured THEN x
  ELSE [x EXCEPT !.rows = [i \in 1..Len(x.rows) |->
                             [k \in DOMAIN x.rows[i] |-> nan_to_num_float(x.rows[i][k])]]]

\* the rows np.savetxt writes with the formats fmts, as read back
written_table(data, fmts) ==
  [names |-> data.names,
   rows  |-> [i \in 1..Len(data.rows) |->
                [k \in Range(data.names) |->
                   FormatValue(fmts[IndexOf(data.names, k)], data.rows[i][k])]]]

\* np.savetxt(out_file, np.nan_to_num(self.data), fmt=outfmt), as read back
saved_table(c, data, fmts) == written_table(nan_to_num(data, TRUE), fmts)

\* "%d" % v raises for a v that is not finite: ValueError for NaN,
\* OverflowError for an infinity
bad_row(data, fmts, i) ==
  \E j \in 1..Len(data.names) :
    fmts[j].conv = "d" /\ ~isfinite(data.rows[i][data.names[j]])

\* the first row np.savetxt cannot write, 0 when it can write every row
first_bad_row(data, fmts) ==
  IF \A i \in 1..Len(data.rows) : ~bad_row(data, fmts, i) THEN 0
  ELSE CHOOSE i \in 1..Len(data.rows) :
         bad_row(data, fmts, i) /\ \A h \in 1..(i - 1) : ~bad_row(data, fmts, h)

savetxt_error(data, fmts, i) ==
  IF \E j \in 1..Len(data.names) : fmts[j].conv = "d" /\ data.rows[i][data.names[j]] = NaN
  THEN "ValueError"
  ELSE "OverflowError"

\* np.savetxt that raises at row i: the file holds the header and the rows
\* before i
savetxt_raising(c, data, d, now, fmts, i) ==
  [err |-> savetxt_error(data, fmts, i),
   disk |-> [d EXCEPT !.exists = TRUE, !.mtime = now,
                      !.header = param_lines(c),
                      !.table = written_table([data EXCEPT !.rows = SubSeq(@, 1, i - 1)], fmts)]]

\* the file after save_array_to_disk, or the error it raises
save_with(c, data, d, now, fl) ==
  IF fl.err # "none" THEN [err |-> fl.err, disk |-> d]
  ELSE IF Len(fl.fmts) # Len(data.names) THEN [err |-> "RuntimeError", disk |-> d]
  ELSE IF first_bad_row(nan_to_num(data, TRUE), fl.fmts) # 0
  THEN savetxt_raising(c, nan_to_num(data, TRUE), d, now, fl.fmts,
                       first_bad_row(nan_to_num(data, TRUE), fl.fmts))
  ELSE [err |-> "none",
        disk |-> [d EXCEPT !.exists = TRUE, !.mtime = now,
                           !.header = param_lines(c),
                           !.table = saved_table(c, data, fl.fmts)]]

save_array_to_disk(c, data, d, now) == save_with(c, data, d, now, get_savetxt_fmt_list(c))

----------------------------------------------------------------------------
(* Configurations.                                                         *)

\* the values the evaluator returns for twoF: 12345678.91 and 4.0
StatValues == {1234567891, 400}

\* the changes made to one stored value: 0.01 and 0.11
Deltas == {1, 11}

Fixed(v) == <<v>>

\* the axis arguments of a setup: A and C span F0 from 0 to 1 in steps of
\* 0.5 (C with input_arrays), B gives two F0 values and a range of F1; the
\* glitch search has its range in tglitch
axes_of(variant, gridname) ==
  LET base == [k \in Range(default_search_keys) |-> Fixed(0)]
      glitch == [k \in {"delta_F0", "delta_F1"} |-> Fixed(0)]
  IN  IF variant = "GridGlitchSearch"
      THEN IF gridname = "A"
           THEN [k \in {"tglitch"} |-> <<0, 100, 50>>] @@ glitch
                  @@ [k \in {"F0"} |-> Fixed(100)] @@ base
           ELSE [k \in {"tglitch"} |-> Fixed(200)] @@ glitch
                  @@ [k \in {"F0"} |-> <<100, 150>>] @@ base
      ELSE IF gridname = "B"
      THEN [k \in {"F0"} |-> <<100, 150>>] @@ [k \in {"F1"} |-> <<0, 14, 14>>] @@ base
      ELSE [k \in {"F0"} |-> <<0, 100, 50>>] @@ [k \in {"Alpha"} |-> Fixed(50)] @@ base

\* the grid a SearchOverGridFile has loaded, columns in the file's order
grid_of(gridname) ==
  LET names == <<"F0", "Alpha", "Delta", "F1", "F2">>
  IN  [names |-> names,
       rows  |-> IF gridname = "A"
                 THEN <<RowOf(names, <<100, 50, 0, 0, 0>>), RowOf(names, <<125, 50, 0, 0, 0>>)>>
                 ELSE <<RowOf(names, <<100, 0, 25, 14, 0>>)>>]

Config(variant, clean, gridname, sft) ==
  [variant |-> variant, clean |-> clean, label |-> "grid", gridname |-> gridname,
   sftfilepattern |-> sft,
   input_arrays |-> (gridname = "C"),
   axes |-> axes_of(variant, gridname),
   grid |-> IF variant = "SearchOverGridFile" THEN grid_of(gridname) ELSE NoTable,
   fmt_doppler |-> IF gridname = "B" THEN Fmt("f", 1) ELSE Fmt("g", 16),
   singleFstats |-> FALSE, BSGL |-> FALSE, BtSG |-> FALSE,
   transientWindowType |-> "None"]

\* every class on setup A, with and without SFT files to compare dates with;
\* setup B on the classes whose grid it changes; setup C on GridSearch
Configs ==
  {Config(v, cl, "A", sft) : v \in Variants, cl \in BOOLEAN, sft \in BOOLEAN}
    \cup {Config(v, cl, "B", FALSE) : v \in Variants \ {"TransientGridSearch"}, cl \in BOOLEAN}
    \cup {Config("GridSearch", cl, "C", TRUE) : cl \in BOOLEAN}

----------------------------------------------------------------------------
(* The state.                                                              *)

NoAxis == [x |-> <<>>, input_arrays |-> FALSE, pc |-> "unused", res |-> Ok(<<>>)]

NoCall == [pc |-> "unused"]

\* the last change made to the files: its kind, the column it touched, whether
\* that is a column of the input table, whether the change exceeds the
\* column's tolerance, whether the changed value is off the grid value by
\* more than the tolerance, whether an added line was already in the header,
\* and the number of runs started before it
NoEdit ==
  [kind |-> "none", col |-> "none", input |-> FALSE, beyond |-> FALSE,
   off_grid |-> FALSE, dup |-> FALSE, after |-> 0]

InitObj ==
  [has_input_data |-> FALSE, input_data |-> NoTable, coord_arrays |-> <<>>,
   total_iterations |-> -1, ti_run |-> 0, has_data |-> FALSE, data |-> NoTable]

InitRun ==
  [pc |-> "idle", return_data |-> FALSE, n |-> 0, data |-> NoTable,
   check |-> "none", reason |-> "none", last |-> "none", exc |-> "none",
   where |-> "none", fresh |-> FALSE]

InitDisk ==
  [exists |-> FALSE, mtime |-> 0, header |-> <<>>, table |-> NoTable, sfts |-> <<0, 0>>]

InitEnv == [clock |-> 1, runs |-> 0, edits |-> 0, edit |-> NoEdit, first |-> NoTable]

Init ==
  /\ axis = NoAxis
  /\ cfg \in Configs
  /\ obj = InitObj
  /\ run = InitRun
  /\ disk = InitDisk
  /\ calls = <<>>
  /\ env = InitEnv
  /\ call = NoCall

----------------------------------------------------------------------------
(* run(), step by step.                                                    *)

StartAt(rd, p) ==
  /\ run' = [pc |-> p.pc, return_data |-> rd, n |-> 0, data |-> p.data,
             check |-> p.check, reason |-> p.reason, last |-> p.last,
             exc |-> p.exc, where |-> p.where, fresh |-> TRUE]
  /\ obj' = p.obj

StartFrom(rd, g) ==
  IF g.err # "none"
  THEN /\ run' = [InitRun EXCEPT !.return_data = rd, !.last = "raised",
                                 !.exc = g.err, !.where = "_get_array_from_tuple"]
       /\ obj' = obj
  ELSE StartAt(rd, run_prologue(cfg, [g.obj EXCEPT !.ti_run = env.runs + 1], disk))

\* the call of run(return_data), up to the first grid point or to its end
RunStart(rd) ==
  /\ run.pc = "idle"
  /\ env.runs < MaxRuns
  /\ StartFrom(rd, get_input_data_array(cfg, obj))
  /\ env' = [env EXCEPT !.runs = @ + 1]
  /\ UNCHANGED <<call, axis, cfg, disk, calls>>

Store(r) ==
  IF r.err # "none"
  THEN run' = [run EXCEPT !.pc = "idle", !.last = "raised", !.exc = r.err,
                          !.where = "_get_single_cand_results"]
  ELSE run' = [run EXCEPT !.n = @ + 1, !.data.rows[run.n + 1] = r.row]

\* one iteration of the loop: the evaluator is called with the n-th row and
\* returns twoF = t; the row's results are stored
Evaluate(t) ==
  /\ run.pc = "loop"
  /\ run.n < Len(obj.input_data.rows)
  /\ calls' = Append(calls,
                [run |-> env.runs, n |-> run.n, twoF |-> t, raised |-> FALSE,
                 vals |-> ValsOf(obj.input_data.names, obj.input_data.rows[run.n + 1])])
  /\ Store(single_cand_results(cfg, obj, run.n, evaluated(t)))
  /\ UNCHANGED <<call, axis, cfg, obj, disk, env>>

\* a faulty variant: the rows computed so far are stored and saved
abort_saving_partial(c, r, o, d, now) ==
  [run  |-> [r EXCEPT !.pc = "idle", !.last = "raised", !.exc = "EvaluatorError",
                      !.where = "get_det_stat"],
   obj  |-> [o EXCEPT !.has_data = TRUE, !.data = r.data],
   disk |-> save_array_to_disk(c, r.data, d, now).disk]

\* an exception raised inside the loop leaves run(): no statement of the loop
\* catches it, and the statements after the loop are not reached
abort(c, r, o, d, now) ==
  [run  |-> [r EXCEPT !.pc = "idle", !.last = "raised", !.exc = "EvaluatorError",
                      !.where = "get_det_stat"],
   obj  |-> o,
   disk |-> d]

Aborted(a) ==
  /\ run' = a.run
  /\ obj' = a.obj
  /\ disk' = a.disk

\* one iteration of the loop in which the evaluator raises
EvaluateRaises ==
  /\ run.pc = "loop"
  /\ run.n < Len(obj.input_data.rows)
  /\ calls' = Append(calls,
                [run |-> env.runs, n |-> run.n, twoF |-> 0, raised |-> TRUE,
                 vals |-> ValsOf(obj.input_data.names, obj.input_data.rows[run.n + 1])])
  /\ Aborted(abort(cfg, run, obj, disk, env.clock + 1))
  /\ UNCHANGED <<call, axis, cfg, env>>

Saved(w) ==
  /\ obj' = [obj EXCEPT !.has_data = TRUE, !.data = run.data]
  /\ disk' = w.disk
  /\ env' = [env EXCEPT !.clock = @ + 1,
                        !.first = IF env.runs = 1 /\ w.err = "none" THEN run.data ELSE @]
  /\ run' = IF w.err # "none"
            THEN [run EXCEPT !.pc = "idle", !.last = "raised", !.exc = w.err,
                             !.where = "save_array_to_disk"]
            ELSE [run EXCEPT !.pc = "idle", !.last = "saved"]

\* the end of the loop: the data set is returned, or stored and saved
RunFinish ==
  /\ run.pc = "loop"
  /\ run.n = Len(obj.input_data.rows)
  /\ IF run.return_data
     THEN /\ run' = [run EXCEPT !.pc = "idle", !.last = "returned"]
          /\ UNCHANGED <<obj, disk, env>>
     ELSE Saved(save_array_to_disk(cfg, run.data, disk, env.clock + 1))
  /\ UNCHANGED <<call, axis, cfg, calls>>

----------------------------------------------------------------------------
(* The environment between two runs: the files change.                     *)

CanEdit ==
  /\ run.pc = "idle"
  /\ env.runs >= 1
  /\ env.runs < MaxRuns
  /\ env.edits < MaxEdits

Edited(e) ==
  /\ env' = [env EXCEPT !.edits = @ + 1, !.clock = @ + 1,
                        !.edit = [e EXCEPT !.after = env.runs]]
  /\ run' = [run EXCEPT !.fresh = FALSE]
  /\ UNCHANGED <<call, axis, cfg, obj, calls>>

\* the times an SFT file can get when it is rewritten: now, or, the clock of
\* the file system being coarse, the time the output file was written
TouchTimes == (IF disk.exists THEN {disk.mtime} ELSE {}) \cup {env.clock + 1}

\* the SFT files in S are rewritten, and get the time t
TouchSFT(S, t) ==
  /\ CanEdit
  /\ disk' = [disk EXCEPT !.sfts = [i \in 1..Len(@) |-> IF i \in S THEN t ELSE @[i]]]
  /\ Edited([NoEdit EXCEPT !.kind = "touch_sft"])

\* the output file is removed
DeleteFile ==
  /\ CanEdit /\ disk.exists
  /\ disk' = [InitDisk EXCEPT !.sfts = disk.sfts]
  /\ Edited([NoEdit EXCEPT !.kind = "delete"])

Reverse(s) == [i \in 1..Len(s) |-> s[Len(s) + 1 - i]]

\* the parameter lines of the header are written in another order
HeaderPermute ==
  /\ CanEdit /\ disk.exists
  /\ disk' = [disk EXCEPT !.header = Reverse(@), !.mtime = env.clock + 1]
  /\ Edited([NoEdit EXCEPT !.kind = "header_permute"])

\* a line is added to the header: a new one, or one it already holds
HeaderAdd(l) ==
  /\ CanEdit /\ disk.exists
  /\ disk' = [disk EXCEPT !.header = Append(@, l), !.mtime = env.clock + 1]
  /\ Edited([NoEdit EXCEPT !.kind = "header_add", !.dup = (l \in Range(disk.header))])

\* a line is removed from the header
HeaderRemove(i) ==
  /\ CanEdit /\ disk.exists
  /\ disk' = [disk EXCEPT
       !.header = SubSeq(@, 1, i - 1) \o SubSeq(@, i + 1, Len(@)),
       !.mtime = env.clock + 1]
  /\ Edited([NoEdit EXCEPT !.kind = "header_remove"])

\* the value of a line of the header is changed
HeaderChange(i) ==
  /\ CanEdit /\ disk.exists
  /\ disk' = [disk EXCEPT !.header[i] = <<@[1], "changed">>, !.mtime = env.clock + 1]
  /\ Edited([NoEdit EXCEPT !.kind = "header_change"])

\* the last row of the stored table is removed
DropRow ==
  /\ CanEdit /\ disk.exists /\ Len(disk.table.rows) >= 1
  /\ disk' = [disk EXCEPT !.table.rows = SubSeq(@, 1, Len(@) - 1), !.mtime = env.clock + 1]
  /\ Edited([NoEdit EXCEPT !.kind = "drop_row"])

\* only the first j columns of the stored table are kept
DropColumns(j) ==
  /\ CanEdit /\ disk.exists
  /\ LET names == SubSeq(disk.table.names, 1, j)
     IN  disk' = [disk EXCEPT
           !.table = [names |-> names,
                      rows |-> [r \in 1..Len(disk.table.rows) |->
                                  [k \in Range(names) |-> disk.table.rows[r][k]]]],
           !.mtime = env.clock + 1]
  /\ Edited([NoEdit EXCEPT !.kind = "drop_columns",
                           !.input = (j < Len(search_keys(cfg)))])

\* one stored value is changed by dl
PerturbValue(r, col, dl) ==
  /\ CanEdit /\ disk.exists
  /\ disk' = [disk EXCEPT !.table.rows[r][col] = @ + dl, !.mtime = env.clock + 1]
  /\ Edited([NoEdit EXCEPT
       !.kind = "value", !.col = col,
       !.input = (col \in Range(search_keys(cfg))),
       !.beyond = ~isclose(disk.table.rows[r][col] + dl, disk.table.rows[r][col],
                           tolerance_of(get_savetxt_fmt_dict(cfg)[col]).tol),
       !.off_grid = /\ col \in Range(obj.input_data.names)
                    /\ ~isclose(disk.table.rows[r][col] + dl, obj.input_data.rows[r][col],
                                tolerance_of(get_savetxt_fmt_dict(cfg)[col]).tol)])

Next ==
  \/ \E rd \in BOOLEAN : RunStart(rd)
  \/ \E t \in StatValues : Evaluate(t)
  \/ EvaluateRaises
  \/ RunFinish
  \/ \E S \in SUBSET (1..Len(disk.sfts)) \ {{}}, t \in TouchTimes : TouchSFT(S, t)
  \/ DeleteFile
  \/ HeaderPermute
  \/ \E l \in Range(disk.header) \cup {<<"extra", "1">>} : HeaderAdd(l)
  \/ \E i \in 1..Len(disk.header) : HeaderRemove(i)
  \/ \E i \in 1..Len(disk.header) : HeaderChange(i)
  \/ DropRow
  \/ \E j \in 1..(Len(disk.table.names) - 1) : DropColumns(j)
  \/ \E r \in 1..Len(disk.table.rows), col \in Range(disk.table.names), dl \in Deltas :
       PerturbValue(r, col, dl)

Spec == Init /\ [][Next]_vars

----------------------------------------------------------------------------
(* Axis expansion on its own: every tuple of up to MaxAxisLen values.      *)

\* the values of an axis tuple: -0.1 to 1.0
AxisValues == {-10, 0, 10, 30, 40, 60, 100}

RECURSIVE TuplesUpTo(_)
TuplesUpTo(n) ==
  IF n = 0 THEN {<<>>}
  ELSE LET shorter == TuplesUpTo(n - 1)
       IN  shorter \cup {Append(t, v) : t \in {u \in shorter : Len(u) = n - 1}, v \in AxisValues}

AxisInputs == {t \in TuplesUpTo(MaxAxisLen) : Len(t) >= 1}

InitAxis ==
  /\ axis \in {[x |-> t, input_arrays |-> b, pc |-> "given", res |-> Ok(<<>>)] :
                 t \in AxisInputs, b \in BOOLEAN}
  /\ cfg = Config("GridSearch", FALSE, "A", FALSE)
  /\ obj = InitObj
  /\ run = InitRun
  /\ disk = InitDisk
  /\ calls = <<>>
  /\ env = InitEnv
  /\ call = NoCall

\* self._get_array_from_tuple(x)
Expand ==
  /\ axis.pc = "given"
  /\ axis' = [axis EXCEPT !.pc = "done",
                          !.res = get_array_from_tuple(axis.x, axis.input_arrays)]
  /\ UNCHANGED <<cfg, obj, run, disk, calls, env, call>>

NextAxis == Expand

SpecAxis == InitAxis /\ [][NextAxis]_vars

----------------------------------------------------------------------------
(* Properties of the axis expansion.                                       *)

\* the axis is a range (min, max, step) with a positive step and max >= min
IsRange ==
  /\ axis.pc = "done"
  /\ Len(axis.x) = 3
  /\ axis.input_arrays = FALSE
  /\ axis.x[3] > 0
  /\ axis.x[2] >= axis.x[1]

\* the array is evenly spaced from lo to hi: point i is at
\* lo + (i - 1) * (hi - lo) / (Len - 1), to the nearest unit
EvenlySpaced(arr, lo, hi) ==
  /\ Len(arr) >= 1
  /\ arr[1] = lo
  /\ Len(arr) >= 2 => arr[Len(arr)] = hi
  /\ \A i \in 2..(Len(arr) - 1) : arr[i] = lo + RoundDiv((i - 1) * (hi - lo), Len(arr) - 1)

\* C3: a range (min, max, step) given with input_arrays false expands to an
\* evenly spaced array from min to max with round((max - min) / step) + 1
\* points, also when step does not divide max - min.
C3_PointCountIsRounded ==
  IsRange =>
    /\ axis.res.err = "none"
    /\ Len(axis.res.arr) = RoundDiv(axis.x[2] - axis.x[1], axis.x[3]) + 1
    /\ EvenlySpaced(axis.res.arr, axis.x[1], axis.x[2])

\* C4: when step divides max - min, the expansion has (max - min) / step + 1
\* points, the first is min, the last is max, and consecutive points are
\* exactly step apart.
C4_ExactStepsWhenDivisible ==
  (IsRange /\ (axis.x[2] - axis.x[1]) % axis.x[3] = 0) =>
    /\ axis.res.err = "none"
    /\ Len(axis.res.arr) = (axis.x[2] - axis.x[1]) \div axis.x[3] + 1
    /\ axis.res.arr[1] = axis.x[1]
    /\ axis.res.arr[Len(axis.res.arr)] = axis.x[2]
    /\ \A i \in 1..(Len(axis.res.arr) - 1) :
         axis.res.arr[i + 1] - axis.res.arr[i] = axis.x[3]

\* C5: the expansion depends on the length of the axis and on input_arrays
\* only: one value is returned as it is; three values are expanded as a range
\* exactly when input_arrays is false; every other axis, three values with
\* input_arrays included, is returned element for element in its order.
C5_DispatchOnLengthAndFlag ==
  axis.pc = "done" =>
    /\ Len(axis.x) = 1 => axis.res = Ok(axis.x)
    /\ (Len(axis.x) = 3 /\ axis.input_arrays = FALSE) =>
         /\ axis.res = expand_range(axis.x)
         /\ axis.res # Ok(axis.x)
    /\ (Len(axis.x) \notin {1, 3} \/ (Len(axis.x) = 3 /\ axis.input_arrays)) =>
         /\ axis.res.err = "none"
         /\ Len(axis.res.arr) = Len(axis.x)
         /\ \A i \in 1..Len(axis.x) : axis.res.arr[i] = axis.x[i]

\* three values given with input_arrays are the three points of the axis
C5_Witness ==
  /\ axis.pc = "done"
  /\ axis.x = <<0, 100, 10>>
  /\ axis.input_arrays
  /\ axis.res = Ok(<<0, 100, 10>>)

----------------------------------------------------------------------------
(* Properties of run() and of the validation of the old output file.       *)

\* the evaluator calls of run number k that returned, in the order they were made
CallsOf(k) == SelectSeq(calls, LAMBDA c : c.run = k /\ ~c.raised)

\* the current run started right after the one change made to the files of
\* a completed run
JustEdited(kinds) ==
  /\ run.fresh
  /\ env.edits = 1
  /\ env.edit.kind \in kinds
  /\ env.edit.after = env.runs - 1

\* C1: when a run with clean false and return_data false has saved its
\* output and run() is called again, nothing having changed in between, the
\* second run's validation returns the stored table, the evaluator is not
\* called during the second run, and self.data is then the table the first
\* run produced.
C1_SecondRunReusesFirst ==
  (/\ env.runs = 2
   /\ env.edits = 0
   /\ env.first # NoTable
   /\ ~run.return_data) =>
    /\ run.check = "old_data"
    /\ CallsOf(2) = <<>>
    /\ obj.data = env.first

\* C2: with clean true, run() of a GridSearch or of a TransientGridSearch on
\* a new object raises nothing, calls the evaluator once for every grid point
\* and ends by saving or returning the result table.
C2_CleanRunCompletes ==
  (/\ cfg.clean
   /\ cfg.variant \in {"GridSearch", "TransientGridSearch"}
   /\ env.runs = 1) =>
    /\ run.last # "raised"
    /\ run.pc = "idle" =>
         /\ run.last \in {"saved", "returned"}
         /\ Len(CallsOf(1)) = obj.total_iterations

\* the number of rows over which the value of axis k stays the same
Stride(arrs, k) == ProdLen(SubSeq(arrs, k + 1, Len(arrs)))

\* C6: total_iterations is the product of the lengths of the expanded axes,
\* taken in search_keys order, and is set before any call of the evaluator;
\* the input table has one column per search key in that order and one row
\* per point of the Cartesian product, the last axis varying fastest.  The
\* attributes change only when run() starts: the axes and the rows are
\* compared in the state the start of run() leaves.
C6_InputTableIsProduct ==
  (cfg.variant # "SearchOverGridFile" /\ obj.ti_run >= 1) =>
    /\ \A i \in 1..Len(calls) : calls[i].run <= obj.ti_run
    /\ obj.total_iterations = ProdLen(obj.coord_arrays)
    /\ obj.has_input_data => Len(obj.input_data.rows) = obj.total_iterations
    /\ (run.fresh /\ run.n = 0) =>
         /\ Len(obj.coord_arrays) = Len(search_keys(cfg))
         /\ \A k \in 1..Len(obj.coord_arrays) :
              obj.coord_arrays[k]
                = get_array_from_tuple(cfg.axes[search_keys(cfg)[k]], cfg.input_arrays).arr
         /\ obj.has_input_data =>
              /\ obj.input_data.names = search_keys(cfg)
              /\ \A r \in 1..Len(obj.input_data.rows), k \in 1..Len(obj.coord_arrays) :
                   obj.input_data.rows[r][search_keys(cfg)[k]]
                     = obj.coord_arrays[k][(((r - 1) \div Stride(obj.coord_arrays, k))
                                             % Len(obj.coord_arrays[k])) + 1]

\* a grid of two axes of two points each, the other axes of one point
C6_Witness ==
  /\ cfg.variant = "GridSearch"
  /\ obj.has_input_data
  /\ obj.coord_arrays = << <<100, 150>>, <<0, 14>>, <<0>>, <<0>>, <<0>> >>
  /\ obj.total_iterations = 4
  /\ obj.input_data.rows[2]["F0"] = 100
  /\ obj.input_data.rows[2]["F1"] = 14
  /\ obj.input_data.rows[3]["F0"] = 150
  /\ run.fresh
  /\ run.n = 0

\* C7: a single value of the stored table changed by more than the tolerance
\* of its column's format, in any column, makes the validation return False.
C7_AnyPerturbationDetected ==
  (JustEdited({"value"}) /\ env.edit.beyond) => run.check = "False"

\* C7, amended: a stored value of a search-key column that differs from
\* the value of the current grid by more than the tolerance of its column's
\* format makes the validation return False.
C7_InputValueOffGridMisses ==
  (JustEdited({"value"}) /\ env.edit.input /\ env.edit.off_grid) =>
    /\ run.check = "False"
    /\ run.reason = "values"

\* a value of F0 was changed by more than its tolerance, and the run recomputes
C7_Witness ==
  /\ JustEdited({"value"})
  /\ env.edit.col = "F0"
  /\ env.edit.off_grid
  /\ run.check = "False"
  /\ run.reason = "values"
  /\ run.pc = "loop"

\* C8: the header check passes when the stored lines are a permutation of
\* the current parameter lines, and fails, the validation returning False,
\* when one line is added, removed or changed.
C8_HeaderIsSetEquality ==
  /\ JustEdited({"header_permute"}) => run.reason # "header"
  /\ JustEdited({"header_add", "header_remove", "header_change"}) =>
       (run.check = "False" /\ run.reason = "header")

\* C8, amended: the header check passes when the stored lines are a
\* permutation of the current parameter lines, and fails, the validation
\* returning False, when one line is removed or changed or a line the header
\* does not hold yet is added.
C8_HeaderIsSetEqualityOfDistinctLines ==
  /\ JustEdited({"header_permute"}) => run.reason \in {"ok", "values"}
  /\ (JustEdited({"header_add", "header_remove", "header_change"}) /\ ~env.edit.dup) =>
       (run.check = "False" /\ run.reason = "header")

\* the lines were written in another order and the stored table was reused
C8_Witness ==
  /\ JustEdited({"header_permute"})
  /\ disk.header = Reverse(param_lines(cfg))
  /\ run.check = "old_data"
  /\ run.reason = "ok"

\* C9: no failing check of the validation raises: each returns False and
\* run() goes on to the computation.
C9_FailingCheckNeverRaises ==
  /\ run.check # "raised"
  /\ (run.fresh /\ run.reason \in {"nofile", "stale", "header", "length", "columns", "values"}) =>
       (run.check = "False" /\ run.last # "raised")

\* C10: on a cache miss the evaluator is called once per row of the input
\* table, in the order of the table; the result table has one row per input
\* row, row n holds what the n-th call returned, and its search-key columns
\* hold the values of input row n.
C10_OneCallPerRowInOrder ==
  (run.check = "False" /\ run.last \in {"none", "saved", "returned"}) =>
    /\ Len(CallsOf(env.runs)) = run.n
    /\ Len(run.data.rows) = Len(obj.input_data.rows)
    /\ run.pc = "idle" => run.n = Len(obj.input_data.rows)
    /\ \A i \in 1..run.n :
         /\ CallsOf(env.runs)[i].n = i - 1
         /\ CallsOf(env.runs)[i].vals = ValsOf(obj.input_data.names, obj.input_data.rows[i])
         /\ run.data.rows[i]["twoF"] = CallsOf(env.runs)[i].twoF
         /\ \A k \in Range(search_keys(cfg)) :
              run.data.rows[i][k] = obj.input_data.rows[i][k]

\* a run over three rows has ended, the evaluator returning different values
C10_Witness ==
  /\ run.check = "False"
  /\ run.last = "saved"
  /\ run.n = 3
  /\ Len(CallsOf(env.runs)) = 3
  /\ run.data.rows[1]["twoF"] # run.data.rows[3]["twoF"]
  /\ run.data.rows[1]["F0"] # run.data.rows[3]["F0"]

\* C11: when the evaluator raises at a point, the exception leaves run(): the
\* point is not tried again and no later point is evaluated, self.data is not
\* assigned and the output file is neither created nor modified; the output
\* file is written only after the last point of the loop has been evaluated,
\* by the step that ends the run.
C11_RaisingEvaluatorLeavesNoOutput ==
  [][ /\ calls' # calls => run.pc = "loop"
      /\ (run.pc = "loop" /\ disk' # disk) =>
           /\ run.n = Len(obj.input_data.rows)
           /\ Len(CallsOf(env.runs)) = run.n
           /\ run'.pc = "idle"
           /\ run'.last = "saved"
      /\ (run.pc = "loop" /\ run'.last = "raised" /\ run'.where = "get_det_stat") =>
           /\ run'.pc = "idle"
           /\ disk' = disk
           /\ obj' = obj
           /\ Len(calls') = Len(calls) + 1
           /\ calls'[Len(calls')].n = run.n
           /\ calls'[Len(calls')].run = env.runs ]_vars

\* the evaluator raised at the second of at least three points of a first run:
\* there is no output file and no data set
C11_Witness ==
  /\ run.last = "raised"
  /\ run.where = "get_det_stat"
  /\ run.pc = "idle"
  /\ run.n = 1
  /\ Len(obj.input_data.rows) >= 3
  /\ Len(calls) = 2
  /\ ~disk.exists
  /\ ~obj.has_data

----------------------------------------------------------------------------
(* The maximum over the table.                                             *)

\* self.data[key]: a column of the table
column(t, key) == [i \in 1..Len(t.rows) |-> t.rows[i][key]]

\* np.argmax: the first position of the largest value
argmax(col) ==
  CHOOSE i \in 1..Len(col) :
    /\ \A j \in 1..Len(col) : col[j] <= col[i]
    /\ \A j \in 1..(i - 1) : col[j] < col[i]

NoMax(e) == [err |-> e, d |-> <<>>]

\* idx = np.argmax(self.data[key]); {key: self.data[key][idx] for key in
\* self.output_keys}.  Without self.data an AttributeError; a column the
\* table does not have, or an empty table, a ValueError.
get_max(o, key, keys) ==
  IF ~o.has_data THEN NoMax("AttributeError")
  ELSE IF key \notin Range(o.data.names) \/ o.data.rows = <<>> THEN NoMax("ValueError")
  ELSE IF ~(Range(keys) \subseteq Range(o.data.names)) THEN NoMax("ValueError")
  ELSE [err |-> "none",
        d |-> [k \in Range(keys) |-> o.data.rows[argmax(column(o.data, key))][k]]]

get_max_det_stat(c, o) == get_max(o, detstat(c), output_keys(c))

get_max_twoF(c, o) == get_max(o, "twoF", output_keys(c))

----------------------------------------------------------------------------
(* _get_tolerance_from_savetxt_fmt called on its own, for one column.      *)

MaxPrec == 4

MaxWidth == 2

Conversions == {"d", "g", "f", "e", "s"}

\* "%d", "%g", "%.3g", "%2.3f", "%2e", ...
Formats ==
  {[conv |-> c, prec |-> p, width |-> w] :
     c \in Conversions, p \in -1..MaxPrec, w \in -1..MaxWidth}

\* the search object and its files play no part in a method called on its own
Parked ==
  /\ axis = NoAxis
  /\ cfg = Config("GridSearch", FALSE, "A", FALSE)
  /\ obj = InitObj
  /\ run = InitRun
  /\ disk = InitDisk
  /\ calls = <<>>
  /\ env = InitEnv

InitTol ==
  /\ call \in {[pc |-> "fmt_dict", fmt |-> f, res |-> NoTolerance("none")] : f \in Formats}
  /\ Parked

\* self._get_tolerance_from_savetxt_fmt(), the format dictionary being
\* {"twoF": fmt}
GetTolerance ==
  /\ call.pc = "fmt_dict"
  /\ call' = [call EXCEPT !.pc = "tolerance",
                          !.res = tolerances_of([k \in {"twoF"} |-> call.fmt])]
  /\ UNCHANGED <<axis, cfg, obj, run, disk, calls, env>>

NextTol == GetTolerance

SpecTol == InitTol /\ [][NextTol]_vars

\* C12: a format ending in d gives (0, 0), one ending in g with P digits
\* gives (10^(1-P), 0), one ending in f with D decimals gives (0, 10^-D), and
\* every other format, a g or f format without a digit count included, is a
\* ValueError.
C12_ToleranceFromFormat ==
  call.pc = "tolerance" =>
    IF call.fmt.conv = "d"
    THEN call.res.err = "none" /\ call.res.tol["twoF"] = Tol(Zero, Zero)
    ELSE IF call.fmt.conv = "g" /\ call.fmt.prec >= 0
    THEN call.res.err = "none" /\ call.res.tol["twoF"] = Tol(TenTo(1 - call.fmt.prec), Zero)
    ELSE IF call.fmt.conv = "f" /\ call.fmt.prec >= 0
    THEN call.res.err = "none" /\ call.res.tol["twoF"] = Tol(Zero, TenTo(-call.fmt.prec))
    ELSE call.res.err = "ValueError"

\* the row of table t that get_max_det_stat and get_max_twoF are to return:
\* the first row whose value in column key is the largest of the column
FirstMaxRow(t, key) ==
  t.rows[CHOOSE i \in 1..Len(t.rows) :
           /\ \A j \in 1..Len(t.rows) : t.rows[j][key] <= t.rows[i][key]
           /\ \A j \in 1..(i - 1) : t.rows[j][key] # t.rows[i][key]]

\* C13: after a run that ended with the data set stored, get_max_det_stat
\* returns the row with the largest detection statistic and get_max_twoF the
\* row with the largest twoF, one entry per output key, and the first such
\* row when several rows have the largest value.
C13_MaxIsFirstLargestRow ==
  (run.fresh /\ run.pc = "idle" /\ run.last \in {"saved", "hit"}) =>
    /\ get_max_det_stat(cfg, obj).err = "none"
    /\ DOMAIN get_max_det_stat(cfg, obj).d = Range(output_keys(cfg))
    /\ \A k \in Range(output_keys(cfg)) :
         get_max_det_stat(cfg, obj).d[k] = FirstMaxRow(obj.data, detstat(cfg))[k]
    /\ get_max_twoF(cfg, obj).err = "none"
    /\ DOMAIN get_max_twoF(cfg, obj).d = Range(output_keys(cfg))
    /\ \A k \in Range(output_keys(cfg)) :
         get_max_twoF(cfg, obj).d[k] = FirstMaxRow(obj.data, "twoF")[k]

----------------------------------------------------------------------------
(* The grid file of SearchOverGridFile.  A file is its "%%" lines, the     *)
(* last of which holds the column names, and its rows of numbers.          *)

\* lalpulsar.PULSAR_MAX_SPINS
PULSAR_MAX_SPINS == 7

MaxGridRows == 3

SpinNames == <<"f1dot", "f2dot", "f3dot", "f4dot", "f5dot", "f6dot", "f7dot">>

FNames == <<"F1", "F2", "F3", "F4", "F5", "F6", "F7">>

\* _translate_keys_from_cfsv2, one key: freq, alpha, delta and f{k}dot for
\* k in 1..PULSAR_MAX_SPINS-1 are translated, every other key is kept
translate_key(key) ==
  IF key = "freq" THEN "F0"
  ELSE IF key = "alpha" THEN "Alpha"
  ELSE IF key = "delta" THEN "Delta"
  ELSE IF \E k \in 1..(PULSAR_MAX_SPINS - 1) : SpinNames[k] = key
  THEN FNames[CHOOSE k \in 1..(PULSAR_MAX_SPINS - 1) : SpinNames[k] = key]
  ELSE key

translate_keys_from_cfsv2(keylist) == [i \in 1..Len(keylist) |-> translate_key(keylist[i])]

GridRead(t) == [err |-> "none", grid |-> t]

GridRaised(e) == [err |-> e, grid |-> NoTable]

\* _read_grid_with_numpy: np.genfromtxt(..., names=True) gives an array of
\* shape (R,) for R = 0 and R >= 2 rows and of shape () for one row, and
\* len() of an array of shape () is a TypeError
read_grid_with_numpy(f) ==
  IF Len(f.rows) = 1 THEN GridRaised("TypeError")
  ELSE IF Len(f.rows) = 0 THEN GridRaised("IOError")
  ELSE GridRead([names |-> translate_keys_from_cfsv2(f.names),
                 rows |-> [r \in 1..Len(f.rows) |-> RowOf(translate_keys_from_cfsv2(f.names), f.rows[r])]])

\* the column names _read_grid_with_pandas gives to pd.read_csv
pandas_names == <<"F0", "Alpha", "Delta", "F1", "F2", "F3">>

\* _read_grid_with_pandas: the names of the file are not read; the columns
\* are named by position, and a column the file does not have holds NaN
read_grid_with_pandas(f) ==
  IF Len(f.rows) = 0 THEN GridRaised("IOError")
  ELSE GridRead([names |-> translate_keys_from_cfsv2(pandas_names),
                 rows |-> [r \in 1..Len(f.rows) |->
                            [k \in Range(pandas_names) |->
                               IF IndexOf(pandas_names, k) <= Len(f.rows[r])
                               THEN f.rows[r][IndexOf(pandas_names, k)]
                               ELSE NaN]]])

\* the column names of the files read
GridHeaders ==
  { <<"freq", "alpha", "delta", "f1dot", "f2dot">>,
    <<"freq", "f1dot", "alpha", "delta">>,
    <<"freq", "alpha", "delta", "f6dot", "f7dot">>,
    <<"F0", "alpha", "tglitch">> }

\* the first number of a row; the row counts up from it
GridSeeds == {0, 100, 250}

GridRowsUpTo(n) == UNION {[1..k -> GridSeeds] : k \in 0..n}

GridFile(names, seeds) ==
  [nhead |-> 2, names |-> names,
   rows |-> [r \in 1..Len(seeds) |-> [j \in 1..Len(names) |-> seeds[r] + j]]]

GridFiles == {GridFile(h, s) : h \in GridHeaders, s \in GridRowsUpTo(MaxGridRows)}

InitGrid ==
  /\ call \in {[pc |-> "gridfile", file |-> f, res |-> GridRaised("none")] : f \in GridFiles}
  /\ Parked

\* self._read_grid_with_numpy()
ReadGrid ==
  /\ call.pc = "gridfile"
  /\ call' = [call EXCEPT !.pc = "grid", !.res = read_grid_with_numpy(call.file)]
  /\ UNCHANGED <<axis, cfg, obj, run, disk, calls, env>>

NextGrid == ReadGrid

SpecGrid == InitGrid /\ [][NextGrid]_vars

\* C15: a grid file with a header and R >= 1 rows of numbers gives a table of
\* R rows in the order of the file, its columns named freq -> F0, alpha ->
\* Alpha, delta -> Delta, fKdot -> FK and every other name kept; a file
\* without rows raises IOError.
C15_GridFileBecomesTable ==
  call.pc = "grid" =>
    IF Len(call.file.rows) = 0 THEN call.res.err = "IOError"
    ELSE /\ call.res.err = "none"
         /\ Len(call.res.grid.rows) = Len(call.file.rows)
         /\ Len(call.res.grid.names) = Len(call.file.names)
         /\ \A j \in 1..Len(call.file.names) :
              /\ call.file.names[j] = "freq" => call.res.grid.names[j] = "F0"
              /\ call.file.names[j] = "alpha" => call.res.grid.names[j] = "Alpha"
              /\ call.file.names[j] = "delta" => call.res.grid.names[j] = "Delta"
              /\ \A k \in 1..(PULSAR_MAX_SPINS - 1) :
                   call.file.names[j] = SpinNames[k] => call.res.grid.names[j] = FNames[k]
              /\ call.file.names[j] \in {"F0", "tglitch", "f7dot"} =>
                   call.res.grid.names[j] = call.file.names[j]
              /\ \A r \in 1..Len(call.file.rows) :
                   call.res.grid.rows[r][call.res.grid.names[j]] = call.file.rows[r][j]

----------------------------------------------------------------------------
(* The constructors of TransientGridSearch and SearchOverGridFile, up to   *)
(* the statistic and the evaluator.  steps are the calls made, in order.   *)

Constructed(ds, steps) == [err |-> "none", detstat |-> ds, steps |-> steps]

NotConstructed(e, steps) == [err |-> e, detstat |-> "none", steps |-> steps]

\* lines 995-1006 and 1338-1350: the statistic, then the evaluator
choose_detstat(a, steps) ==
  IF a.BSGL /\ a.BtSG THEN NotConstructed("ValueError", steps)
  ELSE Constructed(detstat(a), steps \o <<"_initiate_search_object", "_set_output_keys">>)

\* lines 1328-1336
read_grid(a) ==
  IF a.reading_method = "numpy" THEN read_grid_with_numpy(a.gridfile)
  ELSE IF a.reading_method = "pandas" THEN read_grid_with_pandas(a.gridfile)
  ELSE GridRaised("ValueError")

init_TransientGridSearch(a) == choose_detstat(a, <<"set_out_file">>)

init_SearchOverGridFile(a) ==
  IF a.nsegs > 1 /\ a.transientWindowType # "None" THEN NotConstructed("ValueError", <<>>)
  ELSE IF read_grid(a).err # "none"
  THEN NotConstructed(read_grid(a).err, <<"set_out_file", "_read_grid">>)
  ELSE choose_detstat(a, <<"set_out_file", "_read_grid">>)

construct(a) ==
  IF a.variant = "TransientGridSearch" THEN init_TransientGridSearch(a)
  ELSE init_SearchOverGridFile(a)

WindowTypes == {"None", "rect", "exp"}

\* grid files of no, one and two rows
InitGridFiles ==
  {GridFile(<<"freq", "alpha", "delta", "f1dot", "f2dot">>, s) : s \in {<<>>, <<0>>, <<0, 100>>}}

InitArgs ==
  {[variant |-> "TransientGridSearch", BSGL |-> b, BtSG |-> t, transientWindowType |-> w,
    nsegs |-> 1, reading_method |-> "none", gridfile |-> GridFile(<<>>, <<>>)] :
     b \in BOOLEAN, t \in BOOLEAN, w \in WindowTypes}
  \cup
  {[variant |-> "SearchOverGridFile", BSGL |-> b, BtSG |-> t, transientWindowType |-> w,
    nsegs |-> n, reading_method |-> m, gridfile |-> f] :
     b \in BOOLEAN, t \in BOOLEAN, w \in WindowTypes, n \in {1, 2},
     m \in {"numpy", "pandas", "other"}, f \in InitGridFiles}

InitNew ==
  /\ call \in {[pc |-> "args", args |-> a, res |-> NotConstructed("none", <<>>)] : a \in InitArgs}
  /\ Parked

\* TransientGridSearch(...) or SearchOverGridFile(...)
Construct ==
  /\ call.pc = "args"
  /\ call' = [call EXCEPT !.pc = "constructed", !.res = construct(call.args)]
  /\ UNCHANGED <<axis, cfg, obj, run, disk, calls, env>>

NextNew == Construct

SpecNew == InitNew /\ [][NextNew]_vars

\* arguments that are valid but for the two statistics: a grid file of at
\* least one row read with a method there is, and no segments with a
\* transient window
ValidButForStatistics(a) ==
  a.variant = "SearchOverGridFile" =>
    /\ a.nsegs = 1 \/ a.transientWindowType = "None"
    /\ a.reading_method \in {"numpy", "pandas"}
    /\ Len(a.gridfile.rows) >= 1

\* C14: with BSGL and BtSG both set, the constructors of TransientGridSearch
\* and SearchOverGridFile raise ValueError before the evaluator is
\* constructed; with at most one set, the detection statistic is log10BSGL
\* for BSGL, lnBtSG for BtSG and the default of the class otherwise.
C14_BothStatisticsRejected ==
  (call.pc = "constructed" /\ ValidButForStatistics(call.args)) =>
    IF call.args.BSGL /\ call.args.BtSG
    THEN /\ call.res.err = "ValueError"
         /\ "_initiate_search_object" \notin Range(call.res.steps)
    ELSE /\ call.res.err = "none"
         /\ "_initiate_search_object" \in Range(call.res.steps)
         /\ call.args.BSGL => call.res.detstat = "log10BSGL"
         /\ call.args.BtSG => call.res.detstat = "lnBtSG"
         /\ (~call.args.BSGL /\ ~call.args.BtSG) => call.res.detstat \in {"twoF", "maxTwoF"}

----------------------------------------------------------------------------
(* Claims about run(), continued.                                          *)

\* a step of run(): its call, or a step of its loop
RunStep == env'.runs # env.runs \/ run.pc = "loop"

\* C16: on every path through run() that ends without an exception, the one
\* that finds a valid old output file included, run(return_data=True)
\* returns the data set and writes nothing to disk, and
\* run(return_data=False) returns nothing and leaves the data set on disk
\* and in self.data.
C16_ReturnDataOnEveryPath ==
  /\ [](  (run.fresh /\ run.pc = "idle" /\ run.last \in {"hit", "saved", "returned"}) =>
            IF run.return_data
            THEN /\ run.last = "returned"
                 /\ Len(run.data.rows) = Len(obj.input_data.rows)
            ELSE /\ run.last \in {"hit", "saved"}
                 /\ obj.has_data
                 /\ disk.exists )
  /\ [][ (RunStep /\ run'.return_data) => disk' = disk ]_vars

----------------------------------------------------------------------------
(* TransientGridSearch as a context manager.  Two "with" blocks run one    *)
(* after the other, each on a search object of its own; the evaluator of   *)
(* an object takes the exclusive resource when it is constructed and       *)
(* gives it back in its __exit__.  The body of a block calls the evaluator *)
(* a number of times, and one of the calls may raise.                      *)

MaxBodyCalls == 3

\* what a body does: its evaluator calls and the one that raises (0: none)
BodyPlans == {[calls |-> n, raises_at |-> r] : n \in 0..MaxBodyCalls, r \in 0..MaxBodyCalls}

\* ComputeFstat(...): the resource is taken, or the constructor raises when
\* another evaluator holds it
evaluator_init(k, i) ==
  IF k.holder # 0 THEN [k EXCEPT !.pc = "failed", !.exc = "RuntimeError"]
  ELSE [k EXCEPT !.pc = "constructed", !.holder = i]

\* ComputeFstat.__enter__
evaluator_enter(k, i) == [k EXCEPT !.entered[i] = @ + 1]

\* ComputeFstat.__exit__: the resource is given back
evaluator_exit(k, i) ==
  [k EXCEPT !.released[i] = @ + 1, !.holder = IF @ = i THEN 0 ELSE @]

\* a faulty variant: the evaluator is left alone when the body raised
TransientGridSearch_exit_on_success(k, i) ==
  [(IF k.exc = "none" THEN evaluator_exit(k, i) ELSE k) EXCEPT !.swallow = FALSE]

\* lines 1014-1017: self.search.__enter__(); return self
TransientGridSearch_enter(k, i) == [evaluator_enter(k, i) EXCEPT !.bound = i]

\* lines 1019-1021: self.search.__exit__(*args, **kwargs), and None returned:
\* the exception of the body is not swallowed
TransientGridSearch_exit(k, i) == [evaluator_exit(k, i) EXCEPT !.swallow = FALSE]

InitCtx ==
  /\ call \in {[pc |-> "start", block |-> 1, plan |-> <<p, q>>, step |-> 0,
                holder |-> 0, entered |-> <<0, 0>>, released |-> <<0, 0>>,
                bound |-> 0, exc |-> "none", swallow |-> FALSE] :
                 p \in BodyPlans, q \in BodyPlans}
  /\ Parked

CtxStep(k) ==
  /\ call' = k
  /\ UNCHANGED <<axis, cfg, obj, run, disk, calls, env>>

\* with TransientGridSearch(...): the object and its evaluator are made
CtxConstruct ==
  /\ call.pc = "start"
  /\ CtxStep(evaluator_init(call, call.block))

\* ... as search: __enter__ is called and its value bound
CtxEnter ==
  /\ call.pc = "constructed"
  /\ CtxStep([TransientGridSearch_enter(call, call.block) EXCEPT !.pc = "body", !.step = 0])

\* the body calls the evaluator once more: the call returns or raises
CtxBodyCall ==
  /\ call.pc = "body"
  /\ call.step < call.plan[call.block].calls
  /\ call.exc = "none"
  /\ CtxStep(IF call.step + 1 = call.plan[call.block].raises_at
             THEN [call EXCEPT !.step = @ + 1, !.exc = "EvaluatorError"]
             ELSE [call EXCEPT !.step = @ + 1])

\* the block is left, at its end or by the exception: __exit__ is called,
\* and the exception goes on unless __exit__ returned a true value
CtxExit ==
  /\ call.pc = "body"
  /\ call.step = call.plan[call.block].calls \/ call.exc # "none"
  /\ CtxStep([TransientGridSearch_exit(call, call.block) EXCEPT
                !.pc = IF call.exc # "none"
                          /\ ~TransientGridSearch_exit(call, call.block).swallow
                       THEN "raised" ELSE "left"])

\* the caller goes on to the second block (having caught the exception of
\* the first, if any)
CtxAgain ==
  /\ call.pc \in {"left", "raised"}
  /\ call.block = 1
  /\ CtxStep([call EXCEPT !.pc = "start", !.block = 2, !.step = 0, !.exc = "none",
                          !.bound = 0])

NextCtx == CtxConstruct \/ CtxEnter \/ CtxBodyCall \/ CtxExit \/ CtxAgain

SpecCtx == InitCtx /\ [][NextCtx]_vars

\* the body of the block raised
BodyRaised(k, i) == k.plan[i].raises_at \in 1..k.plan[i].calls

\* C17: entering a TransientGridSearch returns the search object and enters
\* the context of its evaluator; leaving the block calls the evaluator's
\* release exactly once on every path, the one where the body raises
\* included; the exception is not swallowed; and after the block the
\* resource is free, so that a second search object acquires it.
C17_ScopedRelease ==
  /\ call.pc # "failed"
  /\ \A i \in 1..2 : call.released[i] <= 1 /\ call.entered[i] <= 1
  /\ call.pc = "body" =>
       /\ call.bound = call.block
       /\ call.entered[call.block] = 1
       /\ call.released[call.block] = 0
       /\ call.holder = call.block
  /\ call.pc \in {"left", "raised"} =>
       /\ call.released[call.block] = 1
       /\ call.holder = 0
       /\ call.pc = "raised" <=> BodyRaised(call, call.block)
  /\ call.block = 2 => call.released[1] = 1

\* the body of the first block raised at its second evaluator call, and the
\* second object holds the resource
C17_Witness ==
  /\ call.block = 2
  /\ call.pc = "body"
  /\ call.plan[1].raises_at = 2
  /\ call.plan[1].calls = 3
  /\ call.released = <<1, 0>>
  /\ call.holder = 2

----------------------------------------------------------------------------
(* The files of the transient F-statistic maps: one run over two grid      *)
(* points with outputTransientFstatMap set and a transient window.         *)

fmt_keys == <<"F0", "Alpha", "Delta", "F1", "F2">>

\* os.path.splitext(self.out_file)[0] + "_tCW_"
tCWfilebase == "grid_tCW_"

NoName(e) == [err |-> e, name |-> [base |-> "", vals |-> <<>>]]

\* get_transient_fstat_map_filename(thisCand), thisCand a dict: the base and
\* the values of the five keys of fmt_keys, each written with "{:.16g}"; a
\* KeyError when the point has none of a key
get_transient_fstat_map_filename(point) ==
  IF ~(Range(fmt_keys) \subseteq DOMAIN point) THEN NoName("KeyError")
  ELSE [err |-> "none",
        name |-> [base |-> tCWfilebase,
                  vals |-> [i \in 1..Len(fmt_keys) |-> FormatG(16, point[fmt_keys[i]])]]]

\* the search keys of the run: those of TransientGridSearch, and those of
\* SearchOverGridFile for grid files with and without the columns f2dot, f3dot
MapSearchKeys ==
  { default_search_keys,
    <<"F0", "Alpha", "Delta", "F1", "F2", "F3">>,
    <<"F0", "Alpha", "Delta", "F1">> }

MapValues == {0, 100}

MapPoints(keys) == [Range(keys) -> MapValues]

MapRuns(k) ==
  {[pc |-> "loop", keys |-> k, points |-> <<p, q>>, n |-> 0, files |-> {}, exc |-> "none"] :
     p \in MapPoints(k), q \in MapPoints(k)}

InitMaps ==
  /\ call \in UNION {MapRuns(k) : k \in MapSearchKeys}
  /\ Parked

\* lines 1123-1127, for a name that was made: FstatMap.write_F_mn_to_file
\* writes the file of that name, over the file another point wrote there
write_map(k, name) ==
  [k EXCEPT !.n = @ + 1,
            !.pc = IF k.n + 1 = Len(k.points) THEN "done" ELSE "loop",
            !.files = {f \in @ : f.name # name} \cup {[name |-> name, point |-> k.n + 1]}]

\* one iteration of the loop of run(): the map of the next point is written
WriteMap ==
  /\ call.pc = "loop"
  /\ call.n < Len(call.points)
  /\ call' = IF get_transient_fstat_map_filename(call.points[call.n + 1]).err # "none"
             THEN [call EXCEPT !.pc = "raised",
                     !.exc = get_transient_fstat_map_filename(call.points[call.n + 1]).err]
             ELSE write_map(call, get_transient_fstat_map_filename(call.points[call.n + 1]).name)
  /\ UNCHANGED <<axis, cfg, obj, run, disk, calls, env>>

NextMaps == WriteMap

SpecMaps == InitMaps /\ [][NextMaps]_vars

\* C18: the name of a point's map file is made of the base of the output
\* file and the point's values of F0, Alpha, Delta, F1, F2, in that order;
\* two points of a run get the same name only when they are the same point,
\* so that after the run every point has its map file.
C18_MapFileNamesCollideOnlyForSamePoint ==
  call.pc = "done" =>
    /\ \A i \in 1..2 :
         /\ get_transient_fstat_map_filename(call.points[i]).name.base = tCWfilebase
         /\ get_transient_fstat_map_filename(call.points[i]).name.vals =
              [j \in 1..5 |-> call.points[i][fmt_keys[j]]]
    /\ (get_transient_fstat_map_filename(call.points[1]).name =
          get_transient_fstat_map_filename(call.points[2]).name)
         => call.points[1] = call.points[2]
    /\ call.points[1] # call.points[2] => {f.point : f \in call.files} = {1, 2}

----------------------------------------------------------------------------
(* save_array_to_disk called on a table the evaluator filled: the values   *)
(* of twoF may be NaN or infinite.                                         *)

MaxSaveRows == 3

\* twoF as the evaluator gives it: 4.0, NaN, inf, -inf
SaveStatValues == {400, NaN, PosInf, NegInf}

\* a table of GridSearch over F0 = 0, 1, 2, ... with the values t of twoF
SaveTable(t) ==
  [names |-> output_keys(Config("GridSearch", FALSE, "A", FALSE)),
   rows |-> [i \in 1..Len(t) |->
               [k \in Range(default_search_keys) |-> IF k = "F0" THEN (i - 1) * Scale ELSE 0]
                 @@ [k \in {"twoF"} |-> t[i]]]]

SaveTables == {SaveTable(t) : t \in UNION {[1..n -> SaveStatValues] : n \in 1..MaxSaveRows}}

InitSave ==
  /\ call \in {[pc |-> "data", data |-> t, err |-> "none"] : t \in SaveTables}
  /\ Parked

\* self.data = data; self.save_array_to_disk()
SaveData ==
  /\ call.pc = "data"
  /\ obj' = [obj EXCEPT !.has_data = TRUE, !.data = call.data]
  /\ disk' = save_array_to_disk(cfg, call.data, disk, env.clock + 1).disk
  /\ call' = [call EXCEPT !.pc = "saved",
                          !.err = save_array_to_disk(cfg, call.data, disk, env.clock + 1).err]
  /\ env' = [env EXCEPT !.clock = @ + 1]
  /\ UNCHANGED <<axis, cfg, run, calls>>

NextSave == SaveData

SpecSave == InitSave /\ [][NextSave]_vars

\* C19: save_array_to_disk replaces the values that are not finite before
\* it writes: whatever the table, a NaN or an infinity of the evaluator in
\* it included, every value of the output file is a finite number.
C19_SavedValuesAreFinite ==
  call.pc = "saved" =>
    /\ call.err = "none"
    /\ disk.exists
    /\ Len(disk.table.rows) = Len(call.data.rows)
    /\ \A i \in 1..Len(disk.table.rows) : \A k \in Range(disk.table.names) :
         isfinite(disk.table.rows[i][k])

----------------------------------------------------------------------------
(* Claims about the validation, continued.                                 *)

\* the files are as the validation of the last run saw them
FilesAsValidated ==
  /\ run.fresh
  /\ run.check # "none"
  /\ run.last # "saved"
  /\ run.where # "save_array_to_disk"

\* C20: with sftfilepattern set, the validation returns False when the
\* output file is older than the oldest SFT file, and gives the age of the
\* file as the reason for no output file that is as old as the oldest SFT
\* file or newer, nor when sftfilepattern is None.
C20_OutdatedOutputRejected ==
  FilesAsValidated =>
    /\ (cfg.sftfilepattern /\ disk.exists /\ disk.mtime < oldest_sft(disk)) =>
         (run.check = "False" /\ run.reason = "stale")
    /\ run.reason = "stale" =>
         (cfg.sftfilepattern /\ disk.exists /\ disk.mtime < oldest_sft(disk))

\* every SFT file was rewritten after the output file, and the next run
\* found the output file outdated
C20_Witness ==
  /\ FilesAsValidated
  /\ env.edit.kind = "touch_sft"
  /\ cfg.sftfilepattern
  /\ disk.exists
  /\ disk.mtime < oldest_sft(disk)
  /\ run.check = "False"
  /\ run.reason = "stale"

----------------------------------------------------------------------------
(* One grid point on its own: _get_single_cand_results for every class,    *)
(* every choice of statistics and transient window, and every shape of     *)
(* what the evaluator leaves behind.                                       *)

MaxIdx == 1

\* a search of the given class with singleFstats, BSGL, BtSG and
\* transientWindowType as given
CandConfig(v, sf, bsgl, btsg, w) ==
  [Config(v, FALSE, "A", FALSE) EXCEPT !.singleFstats = sf, !.BSGL = bsgl,
                                       !.BtSG = btsg, !.transientWindowType = w]

\* the searches __init__ accepts: BSGL and BtSG exclude each other, only the
\* transient classes take BtSG and a window, GridGlitchSearch sets BSGL False
CandConfigs ==
  {CandConfig("GridSearch", sf, bsgl, FALSE, "None") : sf \in BOOLEAN, bsgl \in BOOLEAN}
    \cup {CandConfig("GridGlitchSearch", sf, FALSE, FALSE, "None") : sf \in BOOLEAN}
    \cup {CandConfig(v, sf, st[1], st[2], w) :
            v \in {"TransientGridSearch", "SearchOverGridFile"}, sf \in BOOLEAN,
            st \in {<<FALSE, FALSE>>, <<TRUE, FALSE>>, <<FALSE, TRUE>>},
            w \in {"None", "rect", "exp"}}

WindowRanges ==
  {NoWindowRange}
    \cup {[none |-> FALSE, t0 |-> t0, dt0 |-> 100, tau |-> 200, dtau |-> dtau] :
            t0 \in {0, 1000}, dtau \in {100, 200}}

FstatMaps ==
  {NoFstatMap}
    \cup {[has |-> TRUE, maxidx |-> <<i, j>>, t0_MP |-> 7700, tau_MP |-> 8800] :
            i \in 0..MaxIdx, j \in 0..MaxIdx}

\* what an evaluator can leave: twoFX of any length up to the detectors',
\* with or without windowRange and FstatMap
EvalResults ==
  {[evaluated(t) EXCEPT !.twoFX = SubSeq(@, 1, nX), !.windowRange = wr, !.FstatMap = fm] :
     t \in {500, 600}, nX \in 0..Len(detector_names), wr \in WindowRanges, fm \in FstatMaps}

\* the grid point: a value of its own for every search key
CandVals(c) == [k \in 1..Len(search_keys(c)) |-> 1000 + k]

InitCand ==
  /\ call \in {[pc |-> "point", cfg |-> c, ev |-> ev, res |-> CandRaised("none")] :
                 c \in CandConfigs, ev \in EvalResults}
  /\ Parked

\* self._get_single_cand_results(data, 0, vals)
GetSingleCand ==
  /\ call.pc = "point"
  /\ call' = [call EXCEPT
       !.pc = "cand",
       !.res = IF call.cfg.variant = "GridGlitchSearch"
               THEN single_cand_Glitch(call.cfg, CandVals(call.cfg), call.ev)
               ELSE IF call.cfg.variant = "GridSearch"
               THEN single_cand_GridSearch(call.cfg, CandVals(call.cfg), call.ev)
               ELSE single_cand_Transient(call.cfg, CandVals(call.cfg), call.ev)]
  /\ UNCHANGED <<axis, cfg, obj, run, disk, calls, env>>

NextCand == GetSingleCand

SpecCand == InitCand /\ [][NextCand]_vars

\* whether the evaluator's result holds a value for output column k
Populated(c, ev, k) ==
  IF k \in Range(twoFX_keys) THEN IndexOf(twoFX_keys, k) <= Len(ev.twoFX)
  ELSE IF k = "maxTwoF" THEN ~ev.windowRange.none
  ELSE IF k \in {"t0_ML", "tau_ML", "t0_MP", "tau_MP"}
  THEN ev.FstatMap.has /\ ~ev.windowRange.none
  ELSE TRUE

\* the value of output column k in the evaluator's result
OwnValue(c, ev, k) ==
  IF k \in Range(search_keys(c)) THEN CandVals(c)[IndexOf(search_keys(c), k)]
  ELSE IF k = "twoF" THEN ev.twoF
  ELSE IF k \in Range(twoFX_keys) THEN ev.twoFX[IndexOf(twoFX_keys, k)]
  ELSE IF k = "maxTwoF" THEN ev.maxTwoF
  ELSE IF k = "t0_ML" THEN ev.windowRange.t0 + ev.FstatMap.maxidx[1] * ev.windowRange.dt0
  ELSE IF k = "tau_ML" THEN ev.windowRange.tau + ev.FstatMap.maxidx[2] * ev.windowRange.dtau
  ELSE IF k = "t0_MP" THEN ev.FstatMap.t0_MP
  ELSE IF k = "tau_MP" THEN ev.FstatMap.tau_MP
  ELSE ev.detstat

\* C21: in every class, a grid point with an output column the evaluator's
\* result cannot fill ends in an error, and a grid point that does not end in
\* an error has in every column that column's own value, never a zero left
\* over or the value of another column.
C21_UnpopulatedColumnIsFatal ==
  call.pc = "cand" =>
    IF \A k \in Range(output_keys(call.cfg)) : Populated(call.cfg, call.ev, k)
    THEN /\ call.res.err = "none"
         /\ \A k \in Range(output_keys(call.cfg)) :
              call.res.row[k] = OwnValue(call.cfg, call.ev, k)
    ELSE call.res.err # "none"

C21_Witness ==
  /\ call.pc = "cand"
  /\ call.cfg.variant = "GridGlitchSearch"
  /\ call.cfg.singleFstats
  /\ Len(call.ev.twoFX) = 1
  /\ call.res.err = "IndexError"

\* the value np.savetxt writes for column k of the row, read back
Written(c, row, k) == FormatValue(get_savetxt_fmt_dict(c)[k], row[k])

\* C22: with a transient window, the row of a grid point holds, and the
\* output file gets, t0_ML = t0 + i * dt0 and tau_ML = tau + j * dtau for the
\* index (i, j) of the largest cell of the evaluator's map, and with BtSG
\* also t0_MP and tau_MP as the evaluator's map has them.
C22_TransientEstimates ==
  (call.pc = "cand" /\ call.cfg.transientWindowType # "None" /\ call.res.err = "none") =>
    LET wr == call.ev.windowRange
        fm == call.ev.FstatMap
        row == call.res.row
    IN  /\ row["t0_ML"] = wr.t0 + fm.maxidx[1] * wr.dt0
        /\ row["tau_ML"] = wr.tau + fm.maxidx[2] * wr.dtau
        /\ Written(call.cfg, row, "t0_ML") = wr.t0 + fm.maxidx[1] * wr.dt0
        /\ Written(call.cfg, row, "tau_ML") = wr.tau + fm.maxidx[2] * wr.dtau
        /\ call.cfg.BtSG =>
             /\ row["t0_MP"] = fm.t0_MP /\ row["tau_MP"] = fm.tau_MP
             /\ Written(call.cfg, row, "t0_MP") = fm.t0_MP
             /\ Written(call.cfg, row, "tau_MP") = fm.tau_MP

C22_Witness ==
  /\ call.pc = "cand"
  /\ call.cfg.transientWindowType = "rect"
  /\ call.cfg.BtSG
  /\ call.res.err = "none"
  /\ call.ev.FstatMap.maxidx = <<1, 0>>
  /\ call.res.row["t0_ML"] # call.ev.windowRange.t0
  /\ call.res.row["tau_ML"] = call.ev.windowRange.tau

----------------------------------------------------------------------------
\* C23: with sftfilepattern set, an output file that any one of the SFT
\* files is newer than is never reused: the validation returns False.
C23_AnyNewerSFTRejects ==
  (/\ FilesAsValidated
   /\ cfg.sftfilepattern
   /\ disk.exists
   /\ \E i \in 1..Len(disk.sfts) : disk.sfts[i] > disk.mtime) =>
    run.check = "False"

----------------------------------------------------------------------------
(* check_old_data_is_okay_to_use, check by check.  call.reads is what the  *)
(* validation has read of the output file so far, call.trace the checks it *)
(* has made.                                                               *)

CheckOrder == <<"clean", "nofile", "stale", "header", "length", "columns", "values">>

\* the object after _get_input_data_array
CheckObj(c) == get_input_data_array(c, InitObj).obj

\* the results a finished run holds: twoF = 4.0 at every point
CheckData(c, input) ==
  [names |-> output_keys(c),
   rows |-> [i \in 1..Len(input.rows) |->
               [k \in Range(output_keys(c)) |->
                  IF k \in Range(input.names) THEN input.rows[i][k] ELSE 400]]]

\* the output file as a run of the same search wrote it at time 2
CheckFile(c, o) ==
  save_array_to_disk([c EXCEPT !.clean = FALSE], CheckData(c, o.input_data), InitDisk, 2).disk

\* the tables an older output file may hold instead: a row less, the first
\* column only, or another value in the first column of the first row
CheckTables(t) ==
  {t}
    \cup (IF Len(t.rows) = 0 THEN {}
          ELSE {[t EXCEPT !.rows = SubSeq(@, 1, Len(@) - 1)],
                [names |-> SubSeq(t.names, 1, 1),
                 rows |-> [i \in 1..Len(t.rows) |-> [k \in {t.names[1]} |-> t.rows[i][k]]]],
                [t EXCEPT !.rows[1][t.names[1]] = @ + 100]})

\* the files the validation may find where file is what the search wrote
CheckDisks(c, file) ==
  {[file EXCEPT !.exists = ex, !.sfts = s, !.table = t,
                !.header = IF h THEN @ ELSE Tail(param_lines(c))] :
     ex \in {file.exists, FALSE}, s \in {<<0, 0>>, <<3, 0>>, <<3, 3>>},
     h \in BOOLEAN, t \in CheckTables(file.table)}

CheckCalls(c, o) ==
  {[pc |-> "clean", cfg |-> c, obj |-> o, disk |-> d, reads |-> {},
    trace |-> <<>>, res |-> NoCheck] : d \in CheckDisks(c, CheckFile(c, o))}

InitCheck ==
  /\ call \in UNION {CheckCalls(c, CheckObj(c)) : c \in Configs}
  /\ Parked

\* the check named k is made; it fails with result v, or the validation goes on
CheckStep(k, reads, failed, v, next) ==
  /\ call.pc = k
  /\ call' = [call EXCEPT !.trace = Append(@, k), !.reads = @ \cup reads,
                          !.pc = IF failed THEN "return" ELSE next,
                          !.res = IF failed THEN v ELSE @]
  /\ UNCHANGED <<axis, cfg, obj, run, disk, calls, env>>

\* lines 239-240
CheckClean == CheckStep("clean", {}, call.cfg.clean, Miss("clean"), "nofile")

\* a faulty variant: the header is read before the dates are compared
CheckIsFile_then_header ==
  CheckStep("nofile", {"isfile"}, ~call.disk.exists, Miss("nofile"), "header")

\* lines 241-247
CheckIsFile == CheckStep("nofile", {"isfile"}, ~call.disk.exists, Miss("nofile"), "stale")

\* lines 248-257
CheckStale ==
  CheckStep("stale", IF call.cfg.sftfilepattern THEN {"getmtime"} ELSE {},
            call.cfg.sftfilepattern /\ is_outdated(call.disk.mtime, oldest_sft(call.disk)),
            Miss("stale"), "header")

\* lines 259-275
CheckHeader ==
  CheckStep("header", {"header"},
            ~header_matches(call.disk.header, param_lines(call.cfg)), Miss("header"), "length")

\* lines 277-287
CheckLength ==
  CheckStep("length", {"table"},
            Len(call.disk.table.rows) # Len(call.obj.input_data.rows), Miss("length"), "columns")

\* lines 288-296
CheckColumns ==
  CheckStep("columns", {},
            Len(call.disk.table.names) < Len(call.obj.input_data.names),
            CheckRaised("columns", "IndexError"), "values")

\* lines 302-327
CheckValues ==
  CheckStep("values", {}, TRUE,
            compare_columns(call.cfg, call.disk.table, call.obj.input_data), "return")

NextCheck ==
  \/ CheckClean
  \/ CheckIsFile
  \/ CheckStale
  \/ CheckHeader
  \/ CheckLength
  \/ CheckColumns
  \/ CheckValues

SpecCheck == InitCheck /\ [][NextCheck]_vars

\* whether the check named k finds nothing wrong with the call's file
CheckPasses(k) ==
  IF k = "clean" THEN ~call.cfg.clean
  ELSE IF k = "nofile" THEN call.disk.exists
  ELSE IF k = "stale"
  THEN ~(call.cfg.sftfilepattern /\ call.disk.mtime < oldest_sft(call.disk))
  ELSE IF k = "header" THEN setxor1d(call.disk.header, param_lines(call.cfg)) = {}
  ELSE IF k = "length" THEN Len(call.disk.table.rows) = Len(call.obj.input_data.rows)
  ELSE IF k = "columns" THEN Len(call.disk.table.names) >= Len(call.obj.input_data.names)
  ELSE compare_columns(call.cfg, call.disk.table, call.obj.input_data) = Hit

\* C24: the validation makes its checks in the order clean flag, file
\* existence, age, header, row count, column count, column values, and stops
\* at the first that fails: every check made before the last one passed, the
\* validation has ended exactly when its last check failed or was the last
\* of all, the header is read only of a file that exists and is not
\* outdated, the table is read only after the header matched, and the stored
\* table is returned only when every check passed.
C24_ChecksInOrder ==
  (call.pc \in Range(CheckOrder) \cup {"return"}) =>
    /\ call.trace = SubSeq(CheckOrder, 1, Len(call.trace))
    /\ \A i \in 1..(Len(call.trace) - 1) : CheckPasses(call.trace[i])
    /\ call.pc = "return" <=>
         /\ call.trace # <<>>
         /\ \/ ~CheckPasses(call.trace[Len(call.trace)])
            \/ Len(call.trace) = Len(CheckOrder)
    /\ "header" \in call.reads => (CheckPasses("nofile") /\ CheckPasses("stale"))
    /\ "table" \in call.reads => CheckPasses("header")
    /\ call.res = Hit => \A k \in Range(CheckOrder) : CheckPasses(k)
    /\ call.pc = "return" =>
         call.res = check_old_data_is_okay_to_use(call.cfg, call.obj, call.disk)

\* the validation stopped at the header of a file that exists and is not
\* outdated, without reading the table
C24_Witness ==
  /\ call.pc = "return"
  /\ call.trace = SubSeq(CheckOrder, 1, 4)
  /\ call.res = Miss("header")
  /\ call.reads = {"isfile", "getmtime", "header"}

----------------------------------------------------------------------------
(* run() of GridSearch and TransientGridSearch without clean, the latter   *)
(* with its side files.  call.files are the map                            *)
(* and atoms files written, call.log what the run did, in order; call.disk *)
(* is the output file, call.first the output file as the run found it,     *)
(* call.output_keys the self.output_keys that __init__ has set.            *)

\* a search on setup A with the given statistic (<<BSGL, BtSG>>) and
\* transient window
SideConfig(v, sft, st, w) ==
  [Config(v, FALSE, "A", sft) EXCEPT !.BSGL = st[1], !.BtSG = st[2],
                                     !.transientWindowType = w]

SideConfigs ==
  {SideConfig(v, sft, st, w) :
     v \in {"TransientGridSearch", "SearchOverGridFile"}, sft \in BOOLEAN,
     st \in {<<FALSE, FALSE>>, <<TRUE, FALSE>>, <<FALSE, TRUE>>}, w \in {"None", "rect"}}
    \cup {SideConfig("GridSearch", sft, <<bsgl, FALSE>>, "None") :
            sft \in BOOLEAN, bsgl \in BOOLEAN}

\* what the evaluator leaves at a grid point: with a transient window, the
\* window's range and the map
SideEval(c) ==
  IF c.transientWindowType = "None" THEN evaluated(400)
  ELSE [evaluated(400) EXCEPT
          !.windowRange = [none |-> FALSE, t0 |-> 0, dt0 |-> 100, tau |-> 200, dtau |-> 100],
          !.FstatMap = [has |-> TRUE, maxidx |-> <<1, 0>>, t0_MP |-> 7700, tau_MP |-> 8800]]

SideRuns(c, o) ==
  {[pc |-> "run", cfg |-> c, obj |-> o, output_keys |-> output_keys(c), disk |-> d, first |-> d,
    outputTransientFstatMap |-> m, outputAtoms |-> a, return_data |-> rd,
    n |-> 0, data |-> NoTable, files |-> {}, log |-> <<>>, exc |-> "none"] :
     d \in CheckDisks(c, CheckFile(c, o)), rd \in BOOLEAN,
     m \in IF c.variant = "GridSearch" THEN {FALSE} ELSE BOOLEAN,
     a \in IF c.variant = "GridSearch" THEN {FALSE} ELSE BOOLEAN}

InitSide ==
  /\ call \in UNION {SideRuns(c, CheckObj(c)) : c \in SideConfigs}
  /\ Parked

SideStep(k) ==
  /\ call' = k
  /\ UNCHANGED <<axis, cfg, obj, run, disk, calls, env>>

SideVals(k) == ValsOf(k.obj.input_data.names, k.obj.input_data.rows[k.n + 1])

\* a faulty variant: old results that are okay to use are written to the
\* output file again
SideStart_saving_hit ==
  /\ call.pc = "run"
  /\ LET v == check_old_data_is_okay_to_use(call.cfg, call.obj, call.disk)
     IN  SideStep(
           IF v.ret = "raised" THEN [call EXCEPT !.pc = "raised", !.exc = v.err]
           ELSE IF v.ret = "old_data"
           THEN [call EXCEPT !.pc = "returned", !.log = Append(@, <<"hit", 0>>),
                             !.obj.has_data = TRUE, !.obj.data = call.disk.table,
                             !.disk.mtime = 5]
           ELSE [call EXCEPT !.pc = IF Len(call.obj.input_data.rows) = 0 THEN "save" ELSE "eval",
                             !.data = zeros(call.cfg, call.obj)])

\* lines 391-410 and 1166-1178: old results that are okay to use become
\* self.data and run() returns; else the table of zeros
SideStart ==
  /\ call.pc = "run"
  /\ LET v == check_old_data_is_okay_to_use(call.cfg, call.obj, call.disk)
     IN  SideStep(
           IF v.ret = "raised" THEN [call EXCEPT !.pc = "raised", !.exc = v.err]
           ELSE IF v.ret = "old_data"
           THEN [call EXCEPT !.pc = "returned", !.log = Append(@, <<"hit", 0>>),
                             !.obj.has_data = TRUE, !.obj.data = call.disk.table]
           ELSE [call EXCEPT !.pc = IF Len(call.obj.input_data.rows) = 0 THEN "save" ELSE "eval",
                             !.data = zeros(call.cfg, call.obj)])

\* line 1104: self.search.get_det_stat(params=thisCand) returns
SideEvaluate ==
  /\ call.pc = "eval"
  /\ SideStep([call EXCEPT !.pc = "map", !.log = Append(@, <<"eval", call.n + 1>>)])

\* line 1104: the evaluator raises
SideEvaluateRaises ==
  /\ call.pc = "eval"
  /\ SideStep([call EXCEPT !.pc = "raised", !.exc = "RuntimeError",
                           !.log = Append(@, <<"eval", call.n + 1>>)])

\* a faulty variant: no map file is written
SideWriteMap_skip ==
  /\ call.pc = "map"
  /\ SideStep([call EXCEPT !.pc = "row"])

\* lines 1118-1127: with a transient window and outputTransientFstatMap, the
\* map of the point is written to the file named after the point
SideWriteMap ==
  /\ call.pc = "map"
  /\ LET name == get_transient_fstat_map_filename(RowOf(search_keys(call.cfg), SideVals(call)))
     IN  SideStep(
           IF call.cfg.transientWindowType # "None" /\ call.outputTransientFstatMap
           THEN IF name.err # "none" THEN [call EXCEPT !.pc = "raised", !.exc = name.err]
                ELSE [call EXCEPT !.pc = "row",
                        !.files = {f \in @ : f.kind # "map" \/ f.name # name.name}
                                    \cup {[kind |-> "map", name |-> name.name, point |-> call.n + 1]},
                        !.log = Append(@, <<"map", call.n + 1>>)]
           ELSE [call EXCEPT !.pc = "row"])

\* lines 1128-1142: the estimates and the row of the point
SideRow ==
  /\ call.pc = "row"
  /\ LET r == single_cand_results(call.cfg, call.obj, call.n, SideEval(call.cfg))
     IN  SideStep(IF r.err # "none" THEN [call EXCEPT !.pc = "raised", !.exc = r.err]
                  ELSE [call EXCEPT !.pc = "atoms", !.data.rows[call.n + 1] = r.row])

\* line 1128: FstatMap.get_maxF_idx() of the evaluator raises
SideRowRaises ==
  /\ call.pc = "row"
  /\ call.cfg.transientWindowType # "None"
  /\ SideStep([call EXCEPT !.pc = "raised", !.exc = "RuntimeError"])

\* self.search.write_atoms_to_file(fnamebase): the atoms of the point the
\* evaluator was last called with, in a file named after that point
write_atoms_to_file(k) ==
  [k EXCEPT !.files = {f \in @ : f.kind # "atoms" \/ f.name # SideVals(k)}
                        \cup {[kind |-> "atoms", name |-> SideVals(k), point |-> k.n + 1]},
            !.log = Append(@, <<"atoms", k.n + 1>>)]

\* lines 1188-1189, and the loop going on to the next point or ending
SideAtoms ==
  /\ call.pc = "atoms"
  /\ SideStep([(IF call.outputAtoms THEN write_atoms_to_file(call) ELSE call) EXCEPT
                 !.n = @ + 1,
                 !.pc = IF call.n + 1 = Len(call.obj.input_data.rows) THEN "save" ELSE "eval"])

\* lines 1197-1201: the data are returned or saved
SideSave ==
  /\ call.pc = "save"
  /\ LET s == save_array_to_disk(call.cfg, call.data, call.disk, 5)
     IN  SideStep(
           IF call.return_data THEN [call EXCEPT !.pc = "returned"]
           ELSE IF s.err # "none" THEN [call EXCEPT !.pc = "raised", !.exc = s.err, !.disk = s.disk]
           ELSE [call EXCEPT !.pc = "returned", !.disk = s.disk,
                             !.obj.has_data = TRUE, !.obj.data = call.data,
                             !.log = Append(@, <<"save", 0>>)])

NextSide ==
  \/ SideStart
  \/ SideEvaluate
  \/ SideEvaluateRaises
  \/ SideWriteMap
  \/ SideRow
  \/ SideRowRaises
  \/ SideAtoms
  \/ SideSave

SpecSide == InitSide /\ [][NextSide]_vars

\* the side files the run writes for a point: a map with a transient window
\* and outputTransientFstatMap, atoms with outputAtoms
SideKinds(k) ==
  (IF k.cfg.transientWindowType # "None" /\ k.outputTransientFstatMap THEN {"map"} ELSE {})
    \cup (IF k.outputAtoms THEN {"atoms"} ELSE {})

\* the points whose side file of the kind is on disk
SidePoints(k, kind) == {f.point : f \in {g \in k.files : g.kind = kind}}

\* the side file of the kind was written for point n while the run was at
\* point n: after the evaluator was called for n, before it was called for
\* n + 1 and before the output file was written
WrittenAtItsPoint(log, kind, n) ==
  \E j \in 1..Len(log) :
    /\ log[j] = <<kind, n>>
    /\ \E i \in 1..(j - 1) : log[i] = <<"eval", n>>
    /\ \A i \in 1..j : log[i] # <<"eval", n + 1>> /\ log[i] # <<"save", 0>>

\* C25: with outputTransientFstatMap (with outputAtoms), the side file of a
\* grid point is written while the run is at that point: every point the run
\* is through has its side files on disk, written after the evaluator was
\* called for the point, before it was called for the next and before the
\* output file was written; a run that raised at point k has left the side
\* files of the points before k, at most the map of point k besides, and
\* the output file as it found it.
C25_SideFilesWrittenPointByPoint ==
  (call.pc \in {"eval", "map", "row", "atoms", "save", "returned", "raised"}
     /\ call.log # <<>> /\ call.log[1] # <<"hit", 0>>) =>
    /\ \A kind \in SideKinds(call) :
         /\ 1..call.n \subseteq SidePoints(call, kind)
         /\ \A n \in SidePoints(call, kind) : WrittenAtItsPoint(call.log, kind, n)
    /\ \A f \in call.files : f.kind \in SideKinds(call)
    /\ (call.pc = "raised" /\ call.n < Len(call.obj.input_data.rows)) =>
         /\ SidePoints(call, "atoms") \subseteq 1..call.n
         /\ SidePoints(call, "map") \subseteq 1..(call.n + 1)
         /\ call.disk = call.first

\* the run raised at its second point after writing that point's map
C25_Witness ==
  /\ call.pc = "raised"
  /\ call.n = 1
  /\ call.outputAtoms
  /\ SidePoints(call, "map") = {1, 2}
  /\ SidePoints(call, "atoms") = {1}
  /\ call.disk = call.first

\* the position of column k in the list of columns, 0 when it is not there
Position(keys, k) == IF k \in Range(keys) THEN IndexOf(keys, k) ELSE 0

\* C26: for TransientGridSearch and SearchOverGridFile the list of output
\* columns is the one made at construction, and no step of run() changes
\* it: the table the run fills and the file it writes have these columns.
\* The list has t0_ML and tau_ML exactly with a transient window, t0_MP and
\* tau_MP exactly with a window and BtSG, and these columns stand after the
\* column of the detection statistic.
C26_OutputKeysFixedAtConstruction ==
  /\ [](call.pc \in {"run", "eval", "map", "row", "atoms", "save", "returned", "raised"} =>
          LET keys == call.output_keys
              ML == {"t0_ML", "tau_ML"} \cap Range(keys)
              MP == {"t0_MP", "tau_MP"} \cap Range(keys)
          IN  /\ ML = (IF call.cfg.transientWindowType # "None" THEN {"t0_ML", "tau_ML"} ELSE {})
              /\ MP = (IF call.cfg.transientWindowType # "None" /\ call.cfg.BtSG
                       THEN {"t0_MP", "tau_MP"} ELSE {})
              /\ \A k \in ML \cup MP :
                   /\ detstat(call.cfg) \in Range(keys)
                   /\ Position(keys, detstat(call.cfg)) < Position(keys, k)
              /\ call.data # NoTable => call.data.names = keys
              /\ (call.log # <<>> /\ call.log[Len(call.log)] = <<"save", 0>>) =>
                   call.disk.table.names = keys)
  /\ [][call'.output_keys = call.output_keys]_vars

\* a run with a transient window and BtSG has saved its table
C26_Witness ==
  /\ call.pc = "returned"
  /\ call.cfg.BtSG
  /\ call.cfg.transientWindowType = "rect"
  /\ call.log # <<>>
  /\ call.log[Len(call.log)] = <<"save", 0>>
  /\ call.disk.table.names = call.output_keys
  /\ Position(call.output_keys, "tau_MP") = Len(call.output_keys)

----------------------------------------------------------------------------
(* The two readers of SearchOverGridFile on the same grid files.           *)

InitReaders ==
  /\ call \in {[pc |-> "gridfile", file |-> f, reading_method |-> m, res |-> GridRaised("none")] :
                 f \in GridFiles, m \in {"numpy", "pandas"}}
  /\ Parked

\* lines 1328-1336: the grid file read with the reading_method of the call
ReadGridWith ==
  /\ call.pc = "gridfile"
  /\ call' = [call EXCEPT !.pc = "grid",
                          !.res = read_grid([reading_method |-> call.reading_method,
                                             gridfile |-> call.file])]
  /\ UNCHANGED <<axis, cfg, obj, run, disk, calls, env>>

NextReaders == ReadGridWith

SpecReaders == InitReaders /\ [][NextReaders]_vars

\* C27: a grid file that the numpy reader accepts gives the same table with
\* either reading_method: the same rows, the same column names and the same
\* value in every column.
C27_ReadersAgree ==
  (call.pc = "grid" /\ read_grid_with_numpy(call.file).err = "none") =>
    call.res = read_grid_with_numpy(call.file)

----------------------------------------------------------------------------
\* C28: the detection statistic of a search is one of its output columns,
\* so that after a run that stored its results get_max_det_stat finds the
\* column it takes the maximum of.
C28_DetstatIsOutputKey ==
  call.pc \in {"run", "eval", "map", "row", "atoms", "save", "returned", "raised"} =>
    /\ detstat(call.cfg) \in Range(call.output_keys)
    /\ (call.pc = "returned" /\ call.obj.has_data) =>
         get_max_det_stat(call.cfg, call.obj).err = "none"

----------------------------------------------------------------------------
\* C29: every output column of a search has a format in the format
\* dictionary of its class, singleFstats included, so that
\* save_array_to_disk writes the table of a grid point's row and does not
\* raise.
C29_EveryOutputKeyHasAFormat ==
  (call.pc = "cand" /\ call.res.err = "none") =>
    /\ Range(output_keys(call.cfg)) \subseteq DOMAIN get_savetxt_fmt_dict(call.cfg)
    /\ get_savetxt_fmt_list(call.cfg).err = "none"
    /\ save_array_to_disk(call.cfg, [names |-> output_keys(call.cfg), rows |-> <<call.res.row>>],
                          InitDisk, 1).err = "none"

----------------------------------------------------------------------------
\* C30: a run that finds old results that are okay to use makes them
\* self.data and returns: it has not called the evaluator, the output file
\* is as it was, its date included, and no map or atoms file is written.
C30_CacheHitLeavesDiskAlone ==
  /\ [][(call.pc = "run"
           /\ check_old_data_is_okay_to_use(call.cfg, call.obj, call.disk).ret = "old_data") =>
          /\ call'.pc = "returned"
          /\ call'.obj.has_data /\ call'.obj.data = call.disk.table
          /\ call'.disk = call.disk
          /\ call'.files = call.files
          /\ \A i \in 1..Len(call'.log) : call'.log[i][1] \notin {"eval", "map", "atoms", "save"}]_vars
  /\ []((call.pc = "returned" /\ call.log # <<>> /\ call.log[1] = <<"hit", 0>>) =>
          (call.log = << <<"hit", 0>> >> /\ call.files = {} /\ call.disk = call.first))

\* a search with a transient window, map files and atoms files asked for
\* has found old results that are okay to use
C30_Witness ==
  /\ call.pc = "returned"
  /\ call.log = << <<"hit", 0>> >>
  /\ call.cfg.transientWindowType = "rect"
  /\ call.outputTransientFstatMap
  /\ call.outputAtoms
  /\ call.obj.data = call.first.table
  /\ call.files = {}

====
